---------------------------- MODULE Spec2Model ----------------------------
(***************************************************************************)
(* Grepr (mygrepr): the incremental harvesting scheduler.                  *)
(*                                                                         *)
(* The model follows src/scheduler.py (load_progress, save_progress,       *)
(* fetch_batch, run_scheduler, reset_progress), the two origin variants of *)
(* src/backend/fetchers/reddit.py (_fetch_praw, _fetch_pullpush) and the   *)
(* store client of src/backend/db/nocodb.py (get_existing_post_ids,        *)
(* push_posts, push_post).                                                 *)
(*                                                                         *)
(* Time is counted in half days: a date is two time units, the "day"       *)
(* window spans 2 units and the older windows 4, 6 and 8 units (the code's *)
(* 1, 7, 30 and 365 days, scaled down, nesting kept).  A post is its id;   *)
(* its subreddit, creation time and score are read from the origin table,  *)
(* which is drawn in Init and fixed afterwards.                            *)
(*                                                                         *)
(* Spec follows runs that end normally.  CrashSpec adds the process being  *)
(* killed during a run and during save_progress.  EnrichSpec follows one   *)
(* call of process_posts (src/backend/processors/ai.py) or of              *)
(* process_posts_with_retry (src/backend/cli/process.py) on a list of      *)
(* posts, AI call by AI call.  OracleSpec reads a store table of any       *)
(* content with get_existing_post_ids.  FaultSpec adds to Spec the origin  *)
(* requests that fail (a page of a listing, the top comment of a post) and *)
(* push_post raising on a record it cannot build.                          *)
(* ExtractSpec writes a text phrase by phrase and applies                  *)
(* extract_financial_data (src/backend/processors/ai.py) to it.            *)
(* RetrySpec follows process_posts_with_retry on posts whose text may hold *)
(* a number too long for int(), with the attempts that raise.  ResumeSpec  *)
(* adds to Spec the process being killed after push_post appended records. *)
(***************************************************************************)
EXTENDS Integers, Sequences, FiniteSets, TLC

\* ------------------------------------------------------------------ bounds
\* Number of posts the origin ever holds.
MaxPosts == 4
\* Last time unit of a behaviour (time starts at 3, the second half of date 1).
MaxNow == 4
\* Store requests that may fail in one behaviour.
MaxFaults == 1
\* config: max new posts per subreddit per run (500 in the code, scaled).
POSTS_PER_DAY_PER_SUBREDDIT == 3
\* reddit.py: page size of one PullPush request (100 in the code, scaled).
PULLPUSH_PAGE == 2
\* nocodb.py: page_size of get_existing_post_ids (1000 in the code, scaled).
NOCODB_PAGE == 2
\* Posts handed to process_posts in one call.
MaxItems == 2
\* Records the store table holds when it is read on its own.
MaxStore == 5
\* Page size of a PRAW listing request (100 in the library, scaled).
PRAW_PAGE == 2
\* Highest request number of one fetch that may meet a transport error.
MaxRequests == 2
\* Tokens of a text handed to extract_financial_data on its own.
MaxWords == 15

\* ------------------------------------------------------- program constants
MIN_SCORE == 10
SUBREDDITS == <<"vosfinances", "vossous">>
TIME_PERIODS == <<"day", "week", "month", "year">>
\* config.py: the category vocabulary.
CATEGORIES ==
    {"ETF", "Immobilier", "Crypto", "Epargne", "Fiscalite", "Actions",
     "Strategie", "Milestone", "Question", "Retour XP", "Budget", "Retraite",
     "Credit", "Carriere", "Actualite", "Autre"}
\* ai.py retry_with_backoff: its default arguments.
max_retries == 5
base_delay == 2
\* cli/process.py: rate-limited attempts process_posts_with_retry makes for a post.
MAX_RETRIES == 3

Subs == {SUBREDDITS[k] : k \in 1..Len(SUBREDDITS)}
Ids == 1..MaxPosts
\* The reddit_id of a store record that has none (empty or null).
NoId == 0
NoFile == <<>>
None == "None"
\* fail_at of a fetch in which no request fails.
NoOutage == 0

Min(a, b) == IF a < b THEN a ELSE b

\* Scores are distinct, so that "sorted by score" is one order; the post
\* with the largest id has a score of exactly MIN_SCORE.
Score(i) == MIN_SCORE * (MaxPosts + 1 - i)

\* Creation times a post may have; the first run is at time 3.
CreatedTimes == {0, 1, 3}

\* The origin tables of Init: the post with the lowest score belongs to the
\* second subreddit, the others to the first.
Assignments ==
    {[i \in Ids |-> IF i < MaxPosts THEN SUBREDDITS[1] ELSE SUBREDDITS[2]]}

\* The post of the second subreddit is recent.
Creations == {c \in [Ids -> CreatedTimes] : c[MaxPosts] = 3}

VARIABLES
    now,                 \* wall clock, in half days
    subOf, created,      \* the origin table: post -> subreddit, creation time
    usePraw,             \* reddit.py: _reddit is configured
    file,                \* scheduler_progress.json: NoFile, or <<the record written>>
    store,               \* the NocoDB table: the reddit_id of each record, in order
    faults,              \* store requests that have failed so far
    pc,                  \* position in run_scheduler: idle, guard, walk, process, push, save
    dry_run,             \* run_scheduler's argument
    progress, today,     \* run_scheduler's locals
    existing_ids, all_new_posts,
    comment_fields,      \* the comment_* keys each post dict of the run holds
    subIx, period_index, posts_fetched_today,
    push_existing, push_ix, stats,   \* push_posts' locals
    hist,                \* what the current invocation has done so far (observation only)
    client_ok,           \* ai.py: get_ai_client() returns a client
    via_cli,             \* the posts go through process_posts_with_retry (cli/process.py)
    proc_posts, proc_i,  \* process_posts: its argument and the index of its for loop
    epc,                 \* position in process_posts: idle, item, call, returned, handoff, done
    attempt,             \* retry_with_backoff: the for variable
    trail, waits,        \* what the AI answered, and the delays slept, for the current post
    enriched,            \* categorize_and_summarize: the post it returns
    processed,           \* process_posts: the list it builds
    submitted,           \* the records push_post builds from the processed posts
    text,                \* extract_financial_data: its argument
    extracted,           \* extract_financial_data: NoData, or <<the dict it returned>>
    retries,             \* process_posts_with_retry: retries of the current post
    consecutive_429s     \* process_posts_with_retry: its counter of rate limits

svars == <<now, subOf, created, usePraw, file, store, faults, pc, dry_run,
           progress, today, existing_ids, all_new_posts, comment_fields, subIx,
           period_index, posts_fetched_today, push_existing, push_ix, stats, hist>>

evars == <<client_ok, via_cli, proc_posts, proc_i, epc, attempt, trail, waits,
           enriched, processed, submitted>>

xvars == <<text, extracted>>

rvars == <<retries, consecutive_429s>>

vars == <<svars, evars, xvars, rvars>>


\* ------------------------------------------------------------------- time
\* run_scheduler: today = datetime.now().strftime("%Y-%m-%d"); two units a date,
\* a string as in the code.
Date(t) == ToString(t \div 2)

\* reddit.py _time_filter_to_epoch: the deltas table (day, week, month, year),
\* in half days and scaled.
TimeFilterDelta(time_filter) ==
    CASE time_filter = "day" -> 2
      [] time_filter = "week" -> 4
      [] time_filter = "month" -> 6
      [] OTHER -> 8

time_filter_to_epoch(time_filter, t) == t - TimeFilterDelta(time_filter)

\* ----------------------------------------------------------------- origin
Range(q) == {q[k] : k \in 1..Len(q)}

Take(q, n) == SubSeq(q, 1, Min(n, Len(q)))

\* A set of posts as the sequence sorted by score, highest first.
RECURSIVE ByScoreDesc(_)
ByScoreDesc(S) ==
    IF S = {} THEN <<>>
    ELSE LET m == CHOOSE i \in S : \A j \in S : Score(j) <= Score(i)
         IN  <<m>> \o ByScoreDesc(S \ {m})

\* The posts of a subreddit the origin holds at time t that were created
\* after `after`.
PostsAfter(s, after, t) ==
    {i \in Ids : subOf[i] = s /\ created[i] > after /\ created[i] <= t}

\* One PullPush request: subreddit, size, after, score ">min_score",
\* sort desc by score.
pullpush_request(s, size, after, min_score, t) ==
    Take(ByScoreDesc({i \in PostsAfter(s, after, t) : Score(i) > min_score}), size)

\* _fetch_pullpush: the posts it yields, page after page.  Request number
\* fail_at raises requests.RequestException: the except branch breaks out of
\* the loop, and what earlier pages yielded stays yielded.
RECURSIVE pullpush_pages(_, _, _, _, _, _, _)
pullpush_pages(s, after_utc, remaining, min_score, t, request, fail_at) ==
    IF remaining <= 0 THEN <<>>
    ELSE IF request = fail_at THEN <<>>
    ELSE LET posts == pullpush_request(s, Min(remaining, PULLPUSH_PAGE),
                                       after_utc, min_score, t)
             left == remaining - Len(posts)
         IN  IF posts = <<>> THEN <<>>
             ELSE IF Len(posts) < Min(left + Len(posts), PULLPUSH_PAGE) THEN posts
             ELSE posts \o pullpush_pages(s, created[posts[Len(posts)]], left,
                                          min_score, t, request + 1, fail_at)

\* _fetch_pullpush: the number of requests its loop sends when none fails.
RECURSIVE pullpush_requests(_, _, _, _, _)
pullpush_requests(s, after_utc, remaining, min_score, t) ==
    IF remaining <= 0 THEN 0
    ELSE LET posts == pullpush_request(s, Min(remaining, PULLPUSH_PAGE),
                                       after_utc, min_score, t)
             left == remaining - Len(posts)
         IN  IF posts = <<>> THEN 1
             ELSE IF Len(posts) < Min(left + Len(posts), PULLPUSH_PAGE) THEN 1
             ELSE 1 + pullpush_requests(s, created[posts[Len(posts)]], left,
                                        min_score, t)

fetch_pullpush(s, time_filter, limit, min_score, t, fail_at) ==
    pullpush_pages(s, time_filter_to_epoch(time_filter, t), limit, min_score, t,
                   1, fail_at)

\* sub.top(time_filter, limit): the `limit` highest scored posts of the
\* window, which the listing delivers page by page as it is iterated.
praw_listing(s, time_filter, limit, t) ==
    Take(ByScoreDesc(PostsAfter(s, time_filter_to_epoch(time_filter, t), t)), limit)

\* _fetch_praw: the number of requests the iteration sends when none fails.
praw_requests(s, time_filter, limit, t) ==
    LET n == Len(praw_listing(s, time_filter, limit, t))
    IN  IF n = 0 THEN 1 ELSE (n + PRAW_PAGE - 1) \div PRAW_PAGE

\* _fetch_praw: the score filter is applied to what was listed.  Request
\* number fail_at raises inside the for loop: the except branch ends the
\* generator, and the submissions of the earlier pages stay yielded.
fetch_praw(s, time_filter, limit, min_score, t, fail_at) ==
    LET listing == praw_listing(s, time_filter, limit, t)
        delivered == IF fail_at = NoOutage THEN listing
                     ELSE Take(listing, (fail_at - 1) * PRAW_PAGE)
    IN  SelectSeq(delivered, LAMBDA i : Score(i) >= min_score)

\* fetch_subreddit_posts with sort = "top" (fetch_batch passes no sort).
fetch_subreddit_posts(s, time_filter, limit, t, fail_at) ==
    IF usePraw THEN fetch_praw(s, time_filter, limit, MIN_SCORE, t, fail_at)
    ELSE fetch_pullpush(s, time_filter, limit, MIN_SCORE, t, fail_at)

\* The requests fetch_subreddit_posts sends when none of them fails.
requests_sent(s, time_filter, limit, t) ==
    IF usePraw THEN praw_requests(s, time_filter, limit, t)
    ELSE pullpush_requests(s, time_filter_to_epoch(time_filter, t), limit,
                           MIN_SCORE, t)

\* Outcomes of the request fetch_top_comment sends for a post.
Replies == {"found", "no_reply", "failed"}

\* The keys of the dict fetch_top_comment returns.
CommentFields == {"comment_id", "comment_body", "comment_score", "comment_author"}

\* A reply plan <<i, r>>: the request for the top comment of post i has
\* outcome r, every other one finds a comment.
NoReplyFault == <<0, "found">>
ReplyPlans == {NoReplyFault} \cup {<<i, r>> : i \in Ids, r \in Replies \ {"found"}}
reply_outcome(plan, post_id) == IF plan[1] = post_id THEN plan[2] ELSE "found"

\* fetch_top_comment: the keys of the dict it returns; none for None, which
\* it returns when there is no comment and when its request raises.
fetch_top_comment(plan, post_id) ==
    IF reply_outcome(plan, post_id) = "found" THEN CommentFields ELSE {}

\* --------------------------------------------------------------- scheduler
\* fetch_batch: the loop over the yielded posts.
\* The post appended only when a top comment was found.
append_post_if_comment(new_posts, post, top_comment) ==
    IF top_comment = {} THEN new_posts ELSE Append(new_posts, post)

\* fetch_batch: if top_comment: post.update(top_comment), and then
\* new_posts.append(post) whatever top_comment is.
append_post(new_posts, post, top_comment) == Append(new_posts, post)

\* fetch_batch: the comment_* keys of the posts after post.update(top_comment)
\* on each post of the batch.
post_update(fields, new_posts, plan) ==
    [i \in Ids |-> IF i \in Range(new_posts)
                   THEN fields[i] \cup fetch_top_comment(plan, i)
                   ELSE fields[i]]

RECURSIVE fetch_batch_loop(_, _, _, _, _, _)
fetch_batch_loop(posts, k, limit, existing, new_posts, plan) ==
    IF k > Len(posts) THEN new_posts
    ELSE IF posts[k] \in existing
         THEN fetch_batch_loop(posts, k + 1, limit, existing, new_posts, plan)
         ELSE LET grown == append_post(new_posts, posts[k],
                                       fetch_top_comment(plan, posts[k]))
              IN  IF Len(grown) >= limit THEN grown
                  ELSE fetch_batch_loop(posts, k + 1, limit, existing, grown, plan)

\* fetch_batch without its "already have this post" test.
fetch_batch_unfiltered(s, time_filter, limit, existing, t, fail_at, plan) ==
    fetch_batch_loop(fetch_subreddit_posts(s, time_filter, limit, t, fail_at),
                     1, limit, {}, <<>>, plan)

fetch_batch(s, time_filter, limit, existing, t, fail_at, plan) ==
    fetch_batch_loop(fetch_subreddit_posts(s, time_filter, limit, t, fail_at),
                     1, limit, existing, <<>>, plan)

\* The origin requests and the sleeps of one fetch_batch call, in the order
\* they happen: "page" is a request for a page of the post list, "reply" the
\* request of fetch_top_comment, "sleep" a time.sleep.
\* fetch_batch: the for body on the posts of one page, from post k on, with
\* `count` posts in new_posts: a known post is skipped at once; another one
\* costs fetch_top_comment and time.sleep(0.5), and ends the loop when the
\* batch is full.
RECURSIVE post_events(_, _, _, _, _)
post_events(posts, k, limit, existing, count) ==
    IF k > Len(posts) THEN <<>>
    ELSE IF posts[k] \in existing
         THEN post_events(posts, k + 1, limit, existing, count)
         ELSE <<"reply", "sleep">> \o
              (IF count + 1 >= limit THEN <<>>
               ELSE post_events(posts, k + 1, limit, existing, count + 1))

\* The posts of a page that fetch_batch appends.
appended(posts, existing) ==
    Cardinality({k \in 1..Len(posts) : posts[k] \notin existing})

\* _fetch_pullpush driven by fetch_batch: the request of each page, the for
\* body on what it yields, and time.sleep(1) before the next page.  The
\* generator is not resumed once fetch_batch has left its loop.
RECURSIVE pullpush_events(_, _, _, _, _, _, _, _, _, _)
pullpush_events(s, after_utc, remaining, min_score, t, request, fail_at, limit, existing, count) ==
    IF remaining <= 0 THEN <<>>
    ELSE IF request = fail_at THEN <<"page">>
    ELSE LET posts == pullpush_request(s, Min(remaining, PULLPUSH_PAGE),
                                       after_utc, min_score, t)
             left == remaining - Len(posts)
             grown == count + appended(posts, existing)
         IN  <<"page">> \o post_events(posts, 1, limit, existing, count) \o
             (IF posts = <<>> \/ grown >= limit THEN <<>>
              ELSE IF Len(posts) < Min(left + Len(posts), PULLPUSH_PAGE) THEN <<>>
              ELSE <<"sleep">> \o
                   pullpush_events(s, created[posts[Len(posts)]], left, min_score,
                                   t, request + 1, fail_at, limit, existing, grown))

\* _fetch_praw driven by fetch_batch: the listing sends a request before the
\* first submission of each page (and one for an empty listing); a
\* submission below min_score is not yielded; _fetch_praw itself never sleeps.
RECURSIVE praw_events(_, _, _, _, _, _, _)
praw_events(listing, j, min_score, fail_at, limit, existing, count) ==
    IF j > Len(listing) THEN (IF listing = <<>> THEN <<"page">> ELSE <<>>)
    ELSE LET first == (j - 1) % PRAW_PAGE = 0
             request == (j - 1) \div PRAW_PAGE + 1
         IN  IF first /\ request = fail_at THEN <<"page">>
             ELSE (IF first THEN <<"page">> ELSE <<>>) \o
                  (IF Score(listing[j]) < min_score \/ listing[j] \in existing
                   THEN praw_events(listing, j + 1, min_score, fail_at, limit,
                                    existing, count)
                   ELSE <<"reply", "sleep">> \o
                        (IF count + 1 >= limit THEN <<>>
                         ELSE praw_events(listing, j + 1, min_score, fail_at,
                                          limit, existing, count + 1)))

\* fetch_batch: what it sends to the origin and when it sleeps.
fetch_batch_events(s, time_filter, limit, existing, t, fail_at) ==
    IF usePraw
    THEN praw_events(praw_listing(s, time_filter, limit, t), 1, MIN_SCORE,
                     fail_at, limit, existing, 0)
    ELSE pullpush_events(s, time_filter_to_epoch(time_filter, t), limit,
                         MIN_SCORE, t, 1, fail_at, limit, existing, 0)

\* The last event before a fetch_batch call, followed by the events of the call.
since_last_event(before, events) ==
    (IF before = <<>> THEN <<>> ELSE <<before[Len(before)]>>) \o events

\* What open(PROGRESS_FILE, "w") followed by an unfinished json.dump leaves:
\* an empty file or a prefix of the JSON text, never a complete record.
Truncated == <<[truncated |-> TRUE]>>

\* load_progress: json.load(f) returns a dict (or there is no file).
Readable(f) == IF f = NoFile THEN TRUE ELSE "last_run" \in DOMAIN f[1]

\* The progress of a source written to PROGRESS_FILE as soon as it is known.
progress_file_during_run_saved(f, p) == <<p>>

\* run_scheduler: the progress dict is updated in memory while the sources
\* are walked; PROGRESS_FILE stays what it was.
progress_file_during_run(f, p) == f

\* save_progress left out.
save_progress_skipped(f, p) == f

\* save_progress: the file holds the record passed in.
save_progress(f, p) == <<p>>

\* load_progress: the file's record, or the default one.
\* load_progress with a default record that starts at window 1.
load_progress_second_window(f) ==
    IF f # NoFile THEN f[1]
    ELSE [last_run |-> None, total_fetched |-> 0,
          subreddit_progress |-> [s \in Subs |-> [fetched |-> 0, period_index |-> 1]]]

\* reset_progress: if PROGRESS_FILE.exists(): os.remove(PROGRESS_FILE).
reset_progress(f) == NoFile

load_progress(f) ==
    IF f # NoFile THEN f[1]
    ELSE [last_run |-> None, total_fetched |-> 0,
          subreddit_progress |-> [s \in Subs |-> [fetched |-> 0, period_index |-> 0]]]

\* The guard dropped: the run never returns early.
already_ran_never(p, d) == FALSE

\* run_scheduler: if progress["last_run"] == today.
already_ran(p, d) == p.last_run = d

\* run_scheduler: period_index = sub_progress["period_index"].
start_index(p, s) == p.subreddit_progress[s].period_index

\* run_scheduler: the while condition of the walking loop.
loop_condition(fetched, pidx) ==
    fetched < POSTS_PER_DAY_PER_SUBREDDIT /\ pidx < Len(TIME_PERIODS)

\* The budget not reduced by what the earlier batches of the run captured.
remaining_budget_full(fetched) == POSTS_PER_DAY_PER_SUBREDDIT

\* run_scheduler: remaining = POSTS_PER_DAY_PER_SUBREDDIT - posts_fetched_today.
remaining_budget(fetched) == POSTS_PER_DAY_PER_SUBREDDIT - fetched

\* The index left where it is after an empty batch.
next_period_index_stuck(new_posts, pidx) == pidx

\* period_index += 1 after every batch, empty or not.
next_period_index_always(new_posts, pidx) == pidx + 1

\* run_scheduler: the if new_posts / else period_index += 1 branch.
next_period_index(new_posts, pidx) ==
    IF new_posts # <<>> THEN pidx ELSE pidx + 1

\* The ids of a batch left out of the Known-ID set.
add_new_ids_skipped(ids, new_posts) == ids

\* run_scheduler: for post in new_posts: existing_ids.add(post["id"]).
add_new_ids(ids, new_posts) == ids \cup Range(new_posts)

\* The counter of a source overwritten by the count of the run.
sub_progress_update_run_only(sub_progress, fetched, pidx) ==
    [fetched |-> fetched, period_index |-> pidx]

\* The enrich/push phase entered in a dry run too.
should_process_even_dry(posts, dry) == posts # <<>>

\* run_scheduler: if all_new_posts and not dry_run.
should_process(posts, dry) == posts # <<>> /\ ~dry

\* The index wrapped to the freshest window once every window is exhausted.
sub_progress_update_wrap(sub_progress, fetched, pidx) ==
    [fetched |-> sub_progress.fetched + fetched,
     period_index |-> IF pidx >= Len(TIME_PERIODS) THEN 0 ELSE pidx]

\* The index moved on when the budget, not the window, is exhausted.
sub_progress_update_budget(sub_progress, fetched, pidx) ==
    [fetched |-> sub_progress.fetched + fetched,
     period_index |-> IF fetched >= POSTS_PER_DAY_PER_SUBREDDIT THEN pidx + 1 ELSE pidx]

\* run_scheduler: the record written to progress["subreddit_progress"][subreddit].
sub_progress_update(sub_progress, fetched, pidx) ==
    [fetched |-> sub_progress.fetched + fetched, period_index |-> pidx]

\* ------------------------------------------------------------------ store
\* get_existing_post_ids: the paging loop; request number fail_at raises
\* RequestException (0: none does), which breaks out of the loop.
\* get_existing_post_ids: if record.get("reddit_id"): existing_ids.add(...).
reddit_ids(records) == {r \in Range(records) : r # NoId}

\* The ids read so far thrown away when a request fails.
on_request_exception_empty(ids) == {}

\* get_existing_post_ids: except requests.RequestException: break; the loop
\* is left with the ids of the pages read so far.
on_request_exception(ids) == ids

\* get_existing_post_ids: if not NOCODB_API_TOKEN or not NOCODB_TABLE_ID:
\* return set().
unconfigured_ids == {}

RECURSIVE existing_loop(_, _, _, _, _)
existing_loop(st, offset, ids, request, fail_at) ==
    IF request = fail_at THEN on_request_exception(ids)
    ELSE LET records == SubSeq(st, offset + 1, Min(offset + NOCODB_PAGE, Len(st)))
         IN  IF records = <<>> THEN ids
             ELSE IF Len(records) < NOCODB_PAGE THEN ids \cup reddit_ids(records)
             ELSE existing_loop(st, offset + NOCODB_PAGE, ids \cup reddit_ids(records),
                                request + 1, fail_at)

\* Only the first page is read.
get_existing_post_ids_first_page(st, fail_at) ==
    reddit_ids(SubSeq(st, 1, Min(NOCODB_PAGE, Len(st))))

get_existing_post_ids(st, fail_at) == existing_loop(st, 0, {}, 1, fail_at)

\* The requests get_existing_post_ids makes when none fails.
Requests(st) == Len(st) \div NOCODB_PAGE + 1

\* Which request may fail: none, or any one while faults are left.
FailChoices(st) == IF faults < MaxFaults THEN 0..Requests(st) ELSE {0}

\* push_posts: if post_id in existing_ids: skip.
is_duplicate(post, existing) == post \in existing


\* ------------------------------------------------------------- enrichment
\* What one AI call may produce: an exception that signals rate limiting
\* ("429" or "rate" in its text), any other exception, a text that is not
\* JSON, JSON that is not an object, an object without a category, or an
\* object with a category of the vocabulary ("ETF") or outside it ("Bourse").
AiFailures == {"rate_limit", "error"}
AiAnswers == {"bad_json", "not_object", "no_category", "ETF", "Bourse"}

\* An absent extracted_data; a present one is <<the dict>>.
NoData == <<>>

\* ------------------------------------------------ financial data extraction
\* A text is a sequence of tokens, each a word or a number of at most three
\* digits.  Words are written in ASCII: "EUR" is the euro sign,
\* "j'epargne" is j'(e acute)pargne, "a^ge" is (a circumflex)ge and "a^ge'"
\* is (a circumflex)g(e acute).  In the string the code reads, "k", "EUR",
\* "," and ":" follow the token before them at once and every other token
\* follows a blank.  The patterns of the code whose keywords are no word of
\* Phrases below (atteint, salaire, revenu, gagne, annuel, mensuel, net,
\* met, investis, euros, en, sur, pendant, plus tard, ...) match no text
\* that is read here and are left out.
Word(x) == [w |-> x, n |-> 0]
Num(k) == [w |-> "#", n |-> k]
\* A run of d digits, longer than the longest digit string int() converts.
Long(d) == [w |-> "#long", n |-> d]

\* A field that is None; a field that is set is <<value>>.
Unset == <<>>

IsNum(T, i) == i \in 1..Len(T) /\ T[i].w = "#"
IsWord(T, i, x) == i \in 1..Len(T) /\ T[i].w = x
IsAnyWord(T, i, X) == i \in 1..Len(T) /\ T[i].w \in X
Least(S) == CHOOSE i \in S : \A j \in S : i <= j

\* Descending sort of a set of numbers: sorted(list(set(...)), reverse=True).
RECURSIVE SortedDesc(_)
SortedDesc(S) ==
    IF S = {} THEN <<>>
    ELSE LET m == CHOOSE a \in S : \A b \in S : b <= a
         IN  <<m>> \o SortedDesc(S \ {m})

\* NUM_FR, \d{1,3}(?:[\s ]\d{3})*, read from number i: the last token of
\* the match, which takes in every following number of exactly three digits.
RECURSIVE GroupEnd(_, _)
GroupEnd(T, i) ==
    IF IsNum(T, i + 1) /\ T[i + 1].n \in 100..999 THEN GroupEnd(T, i + 1) ELSE i

\* The same pattern read back from its last number i: the number the
\* leftmost match starts at.
RECURSIVE ChainStart(_, _)
ChainStart(T, i) ==
    IF IsNum(T, i - 1) /\ T[i].n \in 100..999 THEN ChainStart(T, i - 1) ELSE i

\* parse_french_number without its multiplier: the blanks between the groups
\* of three digits are removed.
RECURSIVE GroupValue(_, _, _)
GroupValue(T, i, e) ==
    IF e = i THEN T[i].n ELSE GroupValue(T, i, e - 1) * 1000 + T[e].n

\* ([kKmM]) matched by a token of its own.
Multiplier(T, j) ==
    IF IsWord(T, j, "k") THEN 1000
    ELSE IF IsWord(T, j, "m") THEN 1000000 ELSE 1

\* \s*([kKmM])? at the end of a pattern: it also takes the first letter of
\* a longer word.
LetterMultiplier(T, j) ==
    IF IsWord(T, j, "k") THEN 1000
    ELSE IF IsAnyWord(T, j, {"m", "mois"}) THEN 1000000 ELSE 1

\* \s*([kKmM])?\s*[EUR$]?\s* read from token j: the token that follows.
AfterUnit(T, j) ==
    LET a == IF IsAnyWord(T, j, {"k", "m"}) THEN j + 1 ELSE j
    IN  IF IsWord(T, a, "EUR") THEN a + 1 ELSE a

\* ... (?:par\s+mois|\/mois|mensuel)
MonthlyTail(T, j) ==
    LET a == AfterUnit(T, j) IN IsWord(T, a, "par") /\ IsWord(T, a + 1, "mois")

\* ... (?:par\s+an|\/an|annuel)
AnnualTail(T, j) ==
    LET a == AfterUnit(T, j) IN IsWord(T, a, "par") /\ IsWord(T, a + 1, "ans")

\* ... (?:EUR|euros?)?\s*(?:de\s+)?patrimoine
PatrimoineTail(T, j) ==
    LET a == AfterUnit(T, j)
        b == IF IsWord(T, a, "de") THEN a + 1 ELSE a
    IN  IsWord(T, b, "patrimoine")

\* The value of NUM_FR read from number i, times the multiplier mult.
parse_french_number(T, i, mult) == GroupValue(T, i, GroupEnd(T, i)) * mult

\* amount_patterns 1 to 4 with re.findall: every amount they match.
amounts_found(T) ==
    LET pos == 1..Len(T)
        all == {T[i].n * Multiplier(T, i + 1) :
                   i \in {k \in pos : /\ IsNum(T, k)
                                      /\ IsAnyWord(T, k + 1, {"k", "m"})
                                      /\ IsWord(T, k + 2, "EUR")}}
               \cup {GroupValue(T, ChainStart(T, i), i) :
                   i \in {k \in pos : IsNum(T, k) /\ IsWord(T, k + 1, "EUR")}}
               \cup {T[i].n :
                   i \in {k \in pos : IsNum(T, k) /\ IsWord(T, k + 1, "EUR")}}
               \cup {T[i + 1].n * LetterMultiplier(T, i + 2) :
                   i \in {k \in pos : IsWord(T, k, "EUR") /\ IsNum(T, k + 1)}}
    IN  {a \in all : a >= 100 /\ a <= 100000000}

\* re.search of each patrimoine pattern, in order: the value of its leftmost
\* match as <<value>>, or <<>> when it has none.
patrimoine_matches(T) ==
    LET pos == 1..Len(T)
        P == {p \in pos : IsWord(T, p, "patrimoine")}
        N == IF P = {} THEN {} ELSE {i \in pos : i > Least(P) /\ IsNum(T, i)}
        S == {i \in pos : IsNum(T, i) /\ PatrimoineTail(T, GroupEnd(T, i) + 1)}
        J == {p \in pos : /\ IsWord(T, p, "j'ai")
                          /\ IsNum(T, p + 1)
                          /\ LET e == GroupEnd(T, p + 1)
                                 a == IF IsAnyWord(T, e + 1, {"k", "m"})
                                      THEN e + 2 ELSE e + 1
                             IN  IsWord(T, a, "EUR")}
    IN  << IF N = {} THEN <<>>
           ELSE <<parse_french_number(T, Least(N),
                      LetterMultiplier(T, GroupEnd(T, Least(N)) + 1))>>,
           IF S = {} THEN <<>>
           ELSE <<parse_french_number(T, Least(S),
                      Multiplier(T, GroupEnd(T, Least(S)) + 1))>>,
           <<>>,
           IF J = {} THEN <<>>
           ELSE <<parse_french_number(T, Least(J) + 1,
                      Multiplier(T, GroupEnd(T, Least(J) + 1) + 1))>> >>

\* revenus_patterns: only the first one can match.
revenus_matches(T) ==
    LET S == {i \in 1..Len(T) : IsNum(T, i) /\ AnnualTail(T, GroupEnd(T, i) + 1)}
    IN  << IF S = {} THEN <<>>
           ELSE <<parse_french_number(T, Least(S),
                      Multiplier(T, GroupEnd(T, Least(S)) + 1))>> >>

\* mensuel_patterns: only the first one can match.
mensuel_matches(T) ==
    LET S == {i \in 1..Len(T) : IsNum(T, i) /\ MonthlyTail(T, GroupEnd(T, i) + 1)}
    IN  << IF S = {} THEN <<>>
           ELSE <<parse_french_number(T, Least(S),
                      Multiplier(T, GroupEnd(T, Least(S)) + 1))>> >>

\* epargne_patterns: only the first one can match; [^\d]* runs from the
\* word to the first number after it.
epargne_matches(T) ==
    LET pos == 1..Len(T)
        FirstNum(p) == Least({i \in pos : i > p /\ IsNum(T, i)})
        S == {p \in pos : /\ IsWord(T, p, "j'epargne")
                          /\ \E i \in pos : i > p /\ IsNum(T, i)
                          /\ MonthlyTail(T, GroupEnd(T, FirstNum(p)) + 1)}
    IN  << IF S = {} THEN <<>>
           ELSE <<parse_french_number(T, FirstNum(Least(S)),
                      Multiplier(T, GroupEnd(T, FirstNum(Least(S))) + 1))>> >>

\* duree_patterns: only (?:depuis|en|sur|pendant)\s+(\d+)\s*ans? can match.
duree_matches(T) ==
    LET S == {p \in 1..Len(T) : /\ IsWord(T, p, "depuis")
                                /\ IsNum(T, p + 1)
                                /\ IsWord(T, p + 2, "ans")}
    IN  << IF S = {} THEN <<>> ELSE <<T[Least(S) + 1].n>> >>

\* age_patterns: j'?ai\s+(\d{2})\s*ans, then the (a^ge' de) one, the (a^ge :)
\* one, which takes the first two digits of a longer number, and
\* ^(\d{2})\s*ans\b.
age_matches(T) ==
    LET pos == 1..Len(T)
        TwoDigits(i) == IsNum(T, i) /\ T[i].n \in 10..99
        A == {p \in pos : /\ IsWord(T, p, "j'ai")
                          /\ TwoDigits(p + 1)
                          /\ IsWord(T, p + 2, "ans")}
        B == {p \in pos : /\ IsWord(T, p, "a^ge'")
                          /\ IsWord(T, p + 1, "de")
                          /\ TwoDigits(p + 2)
                          /\ IsWord(T, p + 3, "ans")}
        AfterColon(p) == IF IsWord(T, p + 1, ":") THEN p + 2 ELSE p + 1
        C == {p \in pos : /\ IsWord(T, p, "a^ge")
                          /\ IsNum(T, AfterColon(p))
                          /\ T[AfterColon(p)].n >= 10}
        FirstTwo(n) == IF n >= 100 THEN n \div 10 ELSE n
    IN  << IF A = {} THEN <<>> ELSE <<T[Least(A) + 1].n>>,
           IF B = {} THEN <<>> ELSE <<T[Least(B) + 2].n>>,
           IF C = {} THEN <<>> ELSE <<FirstTwo(T[AfterColon(Least(C))].n)>>,
           IF TwoDigits(1) /\ IsWord(T, 2, "ans") THEN <<T[1].n>> ELSE <<>> >>

\* The age test without its comparison with the duration.
age_accepted_in_range(age, duree_found) == 18 <= age /\ age <= 70

\* if 18 <= age <= 70 and age != duree_found.
age_accepted(age, duree_found) ==
    18 <= age /\ age <= 70 /\ <<age>> # duree_found

\* for pattern in ...: match = re.search(...); if match and <test>: set the
\* field, break.  The matches that pass the test `value and value >= least`,
\* the others turned into no match.
at_least(matches, least) ==
    [k \in 1..Len(matches) |->
        IF matches[k] # <<>> /\ matches[k][1] >= least THEN matches[k] ELSE <<>>]

\* The same for the test 1 <= years <= 50 of the durations.
years_accepted(matches) ==
    [k \in 1..Len(matches) |->
        IF matches[k] # <<>> /\ 1 <= matches[k][1] /\ matches[k][1] <= 50
        THEN matches[k] ELSE <<>>]

\* The same for the test of the ages.
ages_accepted(matches, duree_found) ==
    [k \in 1..Len(matches) |->
        IF matches[k] # <<>> /\ age_accepted(matches[k][1], duree_found)
        THEN matches[k] ELSE <<>>]

\* The first pattern, in order, whose match passed the test sets the field;
\* the field stays None when there is none.
first_match(matches) ==
    LET S == {k \in 1..Len(matches) : matches[k] # <<>>}
    IN  IF S = {} THEN Unset ELSE matches[Least(S)]

\* revenus_annuels: an amount below 10000 is taken as monthly.
annual(m) == IF m = Unset THEN Unset ELSE IF m[1] < 10000 THEN <<m[1] * 12>> ELSE m

extract_financial_data(T) ==
    LET duree_found == first_match(years_accepted(duree_matches(T)))
    IN  [amounts |-> SortedDesc(amounts_found(T)),
         patrimoine |-> first_match(at_least(patrimoine_matches(T), 100)),
         revenus_annuels |-> annual(first_match(at_least(revenus_matches(T), 1))),
         revenus_mensuels |-> first_match(at_least(mensuel_matches(T), 100)),
         epargne_mensuelle |-> first_match(at_least(epargne_matches(T), 50)),
         age |-> first_match(ages_accepted(age_matches(T), duree_found)),
         duree_annees |-> duree_found]

\* No exception.
NoError == <<>>

\* extract_financial_data: the exception it ends by, if any.  The first
\* duration pattern is followed by years = int(match.group(1)) outside any
\* try: on a digit run longer than the interpreter converts, int() raises
\* ValueError, whose message gives the number of digits: <<digits>>.
extract_error(T) ==
    LET M == {i \in 1..(Len(T) - 2) :
                 /\ T[i].w \in {"depuis", "en", "sur", "pendant"}
                 /\ T[i + 1].w \in {"#", "#long"}
                 /\ T[i + 2].w \in {"ans", "an"}}
    IN  IF M # {} /\ T[Least(M) + 1].w = "#long" THEN <<T[Least(M) + 1].n>>
        ELSE NoError

\* The phrases the texts are made of.
Phrases ==
    {<<Word("j'ai"), Num(n), Word("ans")>> : n \in {28, 30}}
    \cup {<<Word("depuis"), Num(n), Word("ans")>> : n \in {28, 60}}
    \cup {<<Word("a^ge'"), Word("de"), Num(n), Word("ans")>> : n \in {28, 30}}
    \cup {<<Word("a^ge"), Word(":"), Num(28)>>,
          <<Num(28), Word("ans")>>,
          <<Word("et"), Num(150), Word("k"), Word("EUR"), Word("de"),
            Word("patrimoine")>>,
          <<Word(","), Word("j'epargne"), Num(500), Word("EUR"), Word("par"),
            Word("mois")>>,
          <<Num(500), Word("EUR"), Word("par"), Word("mois")>>}

\* "J'ai 28 ans et 150kEUR de patrimoine, j'epargne 500EUR par mois"
ExampleText ==
    <<Word("j'ai"), Num(28), Word("ans"),
      Word("et"), Num(150), Word("k"), Word("EUR"), Word("de"), Word("patrimoine"),
      Word(","), Word("j'epargne"), Num(500), Word("EUR"), Word("par"), Word("mois")>>

\* The keys of a post that _post_to_dict, _praw_post_to_dict and
\* fetch_top_comment fill in: its identity and its raw fields.
RawKeys ==
    {"id", "subreddit", "title", "selftext", "score", "num_comments",
     "created_utc", "created_at", "url", "author", "upvote_ratio",
     "comment_id", "comment_body", "comment_score", "comment_author"}

\* A post as process_posts receives it: the dict of _post_to_dict updated
\* with the dict of fetch_top_comment; no category, no extracted_data.  The
\* texts are token sequences; the first post holds the sentence "J'ai 28 ans"
\* as its title and "et 150kEUR de patrimoine, j'epargne 500EUR par mois" as
\* its selftext, the other posts of the origin hold no text.  Three posts
\* that are not from the origin (a file handed to cli/process.py may hold
\* any post) give a duration as a run of 4429 or 5000 digits, in the
\* selftext or in the top comment.
RawPost(i) ==
    [id |-> i,
     subreddit |-> IF i \in Ids THEN subOf[i] ELSE None,
     title |-> IF i = 1 THEN SubSeq(ExampleText, 1, 3) ELSE <<>>,
     selftext |-> IF i = 1 THEN SubSeq(ExampleText, 4, Len(ExampleText))
                  ELSE IF i = MaxPosts + 1
                  THEN <<Word("depuis"), Long(4429), Word("ans")>>
                  ELSE IF i = MaxPosts + 2
                  THEN <<Word("depuis"), Long(5000), Word("ans")>>
                  ELSE <<>>,
     score |-> IF i \in Ids THEN Score(i) ELSE 0,
     num_comments |-> 1,
     created_utc |-> IF i \in Ids THEN created[i] ELSE 0,
     created_at |-> IF i \in Ids THEN Date(created[i]) ELSE None,
     url |-> ToString(i),
     author |-> "author",
     upvote_ratio |-> 1,
     comment_id |-> ToString(i),
     comment_body |-> IF i = MaxPosts + 3
                      THEN <<Word("depuis"), Long(5000), Word("ans")>>
                      ELSE <<>>,
     comment_score |-> 1,
     comment_author |-> "commenter",
     category |-> None, extracted_data |-> NoData,
     ai_failed |-> FALSE,      \* observation: the AI call failed for this post
     calls |-> 0]              \* observation: AI calls made for this post

NoPost == RawPost(0)

\* The posts a file handed to cli/process.py may hold.
FilePosts == {1, MaxPosts + 1, MaxPosts + 2, MaxPosts + 3}

\* categorize_and_summarize: full_text, the title, selftext and comment_body
\* of the post joined by spaces.
full_text(post) == post.title \o post.selftext \o post.comment_body

\* retry_with_backoff: is_rate_limit.
is_rate_limit(resp) == resp = "rate_limit"

\* The same delay whatever the attempt.
retry_delay_flat(resp, k) == base_delay

\* retry_with_backoff: delay = base_delay * 3**attempt for a rate limit,
\* base_delay * 2**attempt for another error.
retry_delay(resp, k) ==
    IF is_rate_limit(resp) THEN base_delay * 3^k ELSE base_delay * 2^k

\* A retry loop that never gives up.
is_last_attempt_never(k) == FALSE

\* retry_with_backoff: if attempt == max_retries - 1: raise.
is_last_attempt(k) == k = max_retries - 1

\* The attempt number carried over from the previous post.
first_attempt_carried(prev) == prev

\* retry_with_backoff: for attempt in range(max_retries) starts at 0 in
\* every call.
first_attempt(prev) == 0

\* The AI's category taken as it is.
validate_category_any(category) == category

\* categorize_and_summarize: category if category in CATEGORIES else "Autre".
validate_category(category) ==
    IF category \in CATEGORIES THEN category ELSE "Autre"

\* categorize_and_summarize: ai_result.get("category", "Autre").
ai_category(resp) == IF resp = "no_category" THEN "Autre" ELSE resp

\* A dict built from the AI's answer alone, under the id of the post.
on_ai_success_answer_only(post, resp) ==
    [NoPost EXCEPT !.id = post.id,
                   !.category = validate_category(ai_category(resp)),
                   !.extracted_data = <<extract_financial_data(full_text(post))>>,
                   !.calls = post.calls]

\* categorize_and_summarize: the post after a parsed answer.
on_ai_success(post, resp) ==
    [post EXCEPT !.category = validate_category(ai_category(resp)),
                 !.extracted_data = <<extract_financial_data(full_text(post))>>]

\* The post left as it was when the AI call fails.
on_ai_failure_bare(post) == [post EXCEPT !.ai_failed = TRUE]

\* categorize_and_summarize: the two except branches (JSONDecodeError,
\* Exception) do the same.
on_ai_failure(post) ==
    [post EXCEPT !.category = "Autre",
                 !.extracted_data = <<extract_financial_data(full_text(post))>>,
                 !.ai_failed = TRUE]

\* process_posts_with_retry: "429" in error_str, for the message of the
\* ValueError of int(): "... value has <digits> digits ...".
has_429(err) == \E k \in 0..3 : (err[1] \div 10^k) % 1000 = 429

\* process_posts_with_retry: the branch of an error that is no rate limit:
\* post["category"] = "Autre", extracted_data from the title and the selftext.
cli_default(post) ==
    [post EXCEPT !.category = "Autre",
                 !.extracted_data =
                     <<extract_financial_data(post.title \o post.selftext)>>]

\* categorize_and_summarize: if not client: return post.
not_configured(post) == post

\* process_posts_with_retry: enriched["extracted_data"] = extract_financial_data(...).
cli_enriched(post) == [post EXCEPT !.extracted_data = <<extract_financial_data(full_text(post))>>]

\* push_post: the record it builds (the fields that depend on enrichment).
push_record(post) ==
    [reddit_id |-> post.id,
     category |-> IF post.category = None THEN "Autre" ELSE post.category,
     extracted_data |-> post.extracted_data]


\* ------------------------------------------------------------ observation
\* hist at the start of an invocation.
NewHist(p) ==
    [outcome |-> "running",
     loaded |-> p,                              \* progress as load_progress returned it
     start_ids |-> {},                          \* get_existing_post_ids() at run start
     walked |-> [s \in Subs |-> {}],            \* windows fetch_batch was called on
     walks |-> [s \in Subs |-> 0],              \* fetch_batch calls made for the source
     yielded |-> [s \in Subs |-> {}],           \* windows whose walk returned new posts
     empty |-> [s \in Subs |-> {}],             \* windows whose walk returned none
     last_batch |-> [s \in Subs |-> -1],        \* window of the last non-empty batch
     known_seen |-> [i \in Ids |-> {}],         \* windows in which a known post was listed
     ai_calls |-> 0,                            \* categorize_and_summarize calls
     failed_request |-> 0,                      \* request of a store read that failed
     transport_error |-> [s \in Subs |-> FALSE], \* a fetch of the source met a failed request
     error_credit |-> [s \in Subs |-> 0],       \* posts such fetches still returned
     candidates |-> {},                         \* listed posts that were not known
     reply_none |-> {},                         \* posts fetch_top_comment returned None for
     events |-> <<>>,                           \* origin requests and sleeps since the last event before the latest walk
     left_behind |-> {},                        \* ids the previous invocation appended before it crashed
     pushed |-> <<>>]                           \* ids push_post appended, in order

\* ----------------------------------------------------------------- actions
\* The locals of run_scheduler and push_posts outside an invocation.
LocalsLost ==
    /\ progress' = load_progress(NoFile)
    /\ today' = None
    /\ existing_ids' = {}
    /\ all_new_posts' = <<>>
    /\ comment_fields' = [i \in Ids |-> {}]
    /\ subIx' = 1
    /\ period_index' = 0
    /\ posts_fetched_today' = 0
    /\ push_existing' = {}
    /\ push_ix' = 1
    /\ stats' = [pushed |-> 0, skipped |-> 0, errors |-> 0]

\* The same, with the way the invocation ended.
NoLocals(outcome) ==
    /\ LocalsLost
    /\ hist' = [NewHist(load_progress(NoFile)) EXCEPT !.outcome = outcome]

SchedulerInit ==
    /\ now = 3
    /\ subOf \in Assignments
    /\ created \in Creations
    /\ usePraw \in BOOLEAN
    /\ file = NoFile
    /\ store = <<>>
    /\ faults = 0
    /\ pc = "idle"
    /\ dry_run = FALSE
    /\ progress = load_progress(NoFile)
    /\ today = None
    /\ existing_ids = {}
    /\ all_new_posts = <<>>
    /\ comment_fields = [i \in Ids |-> {}]
    /\ subIx = 1
    /\ period_index = 0
    /\ posts_fetched_today = 0
    /\ push_existing = {}
    /\ push_ix = 1
    /\ stats = [pushed |-> 0, skipped |-> 0, errors |-> 0]
    /\ hist = [NewHist(load_progress(NoFile)) EXCEPT !.outcome = "none"]

\* No process_posts call is under way.
EnrichIdle ==
    /\ client_ok = TRUE
    /\ via_cli = FALSE
    /\ proc_posts = <<>>
    /\ proc_i = 1
    /\ epc = "idle"
    /\ attempt = 0
    /\ trail = <<>>
    /\ waits = <<>>
    /\ enriched = NoPost
    /\ processed = <<>>
    /\ submitted = <<>>

\* No text has been handed to extract_financial_data.
ExtractIdle ==
    /\ text = <<>>
    /\ extracted = NoData

\* process_posts_with_retry: consecutive_429s = 0 before the loop, retries = 0
\* before the while of each post.
RetryIdle ==
    /\ retries = 0
    /\ consecutive_429s = 0

Init == SchedulerInit /\ EnrichIdle /\ ExtractIdle /\ RetryIdle

\* run_scheduler(dry_run): progress = load_progress(); today = ...
Invoke(dry) ==
    /\ pc = "idle"
    /\ Readable(file)
    /\ pc' = "guard"
    /\ dry_run' = dry
    /\ progress' = load_progress(file)
    /\ today' = Date(now)
    /\ hist' = [NewHist(load_progress(file)) EXCEPT !.left_behind = hist.left_behind]
    /\ existing_ids' = {}
    /\ all_new_posts' = <<>>
    /\ comment_fields' = [i \in Ids |-> {}]
    /\ subIx' = 1
    /\ period_index' = 0
    /\ posts_fetched_today' = 0
    /\ push_existing' = {}
    /\ push_ix' = 1
    /\ stats' = [pushed |-> 0, skipped |-> 0, errors |-> 0]
    /\ UNCHANGED <<evars, xvars, rvars, now, subOf, created, usePraw, file, store, faults>>

\* run_scheduler: the "already ran today" return.
GuardReturn ==
    /\ pc = "guard"
    /\ already_ran(progress, today)
    /\ pc' = "idle"
    /\ dry_run' = FALSE
    /\ NoLocals("skipped")
    /\ UNCHANGED <<evars, xvars, rvars, now, subOf, created, usePraw, file, store, faults>>

\* run_scheduler: existing_ids = get_existing_post_ids(), then the first
\* subreddit of the for loop.
GuardPass(fail_at) ==
    /\ pc = "guard"
    /\ ~already_ran(progress, today)
    /\ pc' = "walk"
    /\ existing_ids' = get_existing_post_ids(store, fail_at)
    /\ faults' = IF fail_at = 0 THEN faults ELSE faults + 1
    /\ hist' = [hist EXCEPT !.start_ids = get_existing_post_ids(store, fail_at)]
    /\ all_new_posts' = <<>>
    /\ subIx' = 1
    /\ period_index' = start_index(progress, SUBREDDITS[1])
    /\ posts_fetched_today' = 0
    /\ UNCHANGED <<evars, xvars, rvars, comment_fields, now, subOf, created, usePraw, file, store, dry_run, progress,
                   today, push_existing, push_ix, stats>>

\* run_scheduler: one iteration of the while loop of the current subreddit.
Walk(fail_at, plan) ==
    /\ pc = "walk"
    /\ loop_condition(posts_fetched_today, period_index)
    /\ LET s == SUBREDDITS[subIx]
           time_filter == TIME_PERIODS[period_index + 1]
           remaining == remaining_budget(posts_fetched_today)
       IN  \E listed \in {Range(fetch_subreddit_posts(s, time_filter, remaining,
                                                      now, fail_at))},
              new_posts \in {fetch_batch(s, time_filter, remaining, existing_ids,
                                         now, fail_at, plan)} :
           /\ \/ fail_at = NoOutage
              \/ /\ fail_at \in 1..requests_sent(s, time_filter, remaining, now)
                 /\ faults < MaxFaults
           /\ plan = NoReplyFault \/ plan[1] \in listed \ existing_ids
           /\ faults' = IF fail_at = NoOutage THEN faults ELSE faults + 1
           /\ all_new_posts' = all_new_posts \o new_posts
           /\ comment_fields' = post_update(comment_fields, new_posts, plan)
           /\ posts_fetched_today' = posts_fetched_today + Len(new_posts)
           /\ existing_ids' = add_new_ids(existing_ids, new_posts)
           /\ period_index' = next_period_index(new_posts, period_index)
           /\ hist' = [hist EXCEPT
                 !.walked[s] = @ \cup {period_index},
                 !.walks[s] = @ + 1,
                 !.yielded[s] = IF new_posts # <<>> THEN @ \cup {period_index} ELSE @,
                 !.empty[s] = IF new_posts = <<>> THEN @ \cup {period_index} ELSE @,
                 !.last_batch[s] = IF new_posts # <<>> THEN period_index ELSE @,
                 !.known_seen = [i \in Ids |->
                     IF i \in listed /\ i \in hist.start_ids
                     THEN @[i] \cup {period_index} ELSE @[i]],
                 !.transport_error[s] = @ \/ fail_at # NoOutage,
                 !.error_credit[s] = IF fail_at # NoOutage THEN @ + Len(new_posts)
                                     ELSE @,
                 !.candidates = @ \cup (listed \ existing_ids),
                 !.reply_none = IF plan = NoReplyFault THEN @ ELSE @ \cup {plan[1]},
                 !.events = since_last_event(@,
                     fetch_batch_events(s, time_filter, remaining, existing_ids,
                                        now, fail_at))]
    /\ UNCHANGED <<evars, xvars, rvars, now, subOf, created, usePraw, file, store, pc, dry_run,
                   progress, today, subIx, push_existing, push_ix, stats>>

\* run_scheduler: the loop of the current subreddit has ended; its progress
\* is updated and the for loop goes to the next subreddit, or ends.
SourceDone ==
    /\ pc = "walk"
    /\ ~loop_condition(posts_fetched_today, period_index)
    /\ LET s == SUBREDDITS[subIx]
       IN  progress' = [progress EXCEPT !.subreddit_progress[s] =
               sub_progress_update(@, posts_fetched_today, period_index)]
    /\ file' = progress_file_during_run(file, progress')
    /\ IF subIx < Len(SUBREDDITS)
       THEN /\ subIx' = subIx + 1
            /\ period_index' = start_index(progress, SUBREDDITS[subIx + 1])
            /\ posts_fetched_today' = 0
            /\ pc' = pc
       ELSE /\ pc' = "process"
            /\ UNCHANGED <<subIx, period_index, posts_fetched_today>>
    /\ UNCHANGED <<evars, xvars, rvars, comment_fields, now, subOf, created, usePraw, store, faults, dry_run,
                   today, existing_ids, all_new_posts, push_existing, push_ix,
                   stats, hist>>

\* run_scheduler: if all_new_posts and not dry_run: process_posts(...), then
\* push_posts begins with its own get_existing_post_ids().
Process(fail_at) ==
    /\ pc = "process"
    /\ should_process(all_new_posts, dry_run)
    /\ pc' = "push"
    /\ hist' = [hist EXCEPT !.ai_calls = Len(all_new_posts)]
    /\ push_existing' = get_existing_post_ids(store, fail_at)
    /\ faults' = IF fail_at = 0 THEN faults ELSE faults + 1
    /\ push_ix' = 1
    /\ stats' = [pushed |-> 0, skipped |-> 0, errors |-> 0]
    /\ UNCHANGED <<evars, xvars, rvars, comment_fields, now, subOf, created, usePraw, file, store, dry_run, progress,
                   today, existing_ids, all_new_posts, subIx, period_index,
                   posts_fetched_today>>

\* run_scheduler: nothing to process, or a dry run.
SkipProcess ==
    /\ pc = "process"
    /\ ~should_process(all_new_posts, dry_run)
    /\ pc' = "save"
    /\ UNCHANGED <<evars, xvars, rvars, comment_fields, now, subOf, created, usePraw, file, store, faults, dry_run,
                   progress, today, existing_ids, all_new_posts, subIx,
                   period_index, posts_fetched_today, push_existing, push_ix,
                   stats, hist>>

\* push_posts: one iteration of the for loop; push_post succeeds or fails.
PushOne(ok) ==
    /\ pc = "push"
    /\ push_ix <= Len(all_new_posts)
    /\ ok \/ faults < MaxFaults
    /\ LET post == all_new_posts[push_ix]
       IN  IF is_duplicate(post, push_existing)
           THEN /\ ok
                /\ stats' = [stats EXCEPT !.skipped = @ + 1]
                /\ UNCHANGED <<store, faults, hist>>
           ELSE IF ok
           THEN /\ store' = Append(store, post)
                /\ stats' = [stats EXCEPT !.pushed = @ + 1]
                /\ hist' = [hist EXCEPT !.pushed = Append(@, post)]
                /\ UNCHANGED faults
           ELSE /\ stats' = [stats EXCEPT !.errors = @ + 1]
                /\ faults' = faults + 1
                /\ UNCHANGED <<store, hist>>
    /\ push_ix' = push_ix + 1
    /\ UNCHANGED <<evars, xvars, rvars, comment_fields, now, subOf, created, usePraw, file, pc, dry_run, progress,
                   today, existing_ids, all_new_posts, subIx, period_index,
                   posts_fetched_today, push_existing>>

\* push_posts returns its stats.
PushDone ==
    /\ pc = "push"
    /\ push_ix > Len(all_new_posts)
    /\ pc' = "save"
    /\ UNCHANGED <<evars, xvars, rvars, comment_fields, now, subOf, created, usePraw, file, store, faults, dry_run,
                   progress, today, existing_ids, all_new_posts, subIx,
                   period_index, posts_fetched_today, push_existing, push_ix,
                   stats, hist>>

\* run_scheduler: last_run, total_fetched, save_progress(progress).
Save ==
    /\ pc = "save"
    /\ LET saved == [progress EXCEPT !.last_run = today,
                                     !.total_fetched = @ + Len(all_new_posts)]
       IN  file' = save_progress(file, saved)
    /\ pc' = "idle"
    /\ dry_run' = FALSE
    /\ NoLocals("completed")
    /\ UNCHANGED <<evars, xvars, rvars, now, subOf, created, usePraw, store, faults>>

\* reset_progress: removes the file when it exists.
Reset ==
    /\ pc = "idle"
    /\ file # NoFile
    /\ file' = reset_progress(file)
    /\ UNCHANGED <<evars, xvars, rvars, comment_fields, now, subOf, created, usePraw, store, faults, pc, dry_run,
                   progress, today, existing_ids, all_new_posts, subIx,
                   period_index, posts_fetched_today, push_existing, push_ix,
                   stats, hist>>

\* Time passes between two invocations.
Tick ==
    /\ pc = "idle"
    /\ now < MaxNow
    /\ now' = now + 1
    /\ UNCHANGED <<evars, xvars, rvars, comment_fields, subOf, created, usePraw, file, store, faults, pc, dry_run,
                   progress, today, existing_ids, all_new_posts, subIx,
                   period_index, posts_fetched_today, push_existing, push_ix,
                   stats, hist>>

Next ==
    \/ \E dry \in BOOLEAN : Invoke(dry)
    \/ GuardReturn
    \/ \E fail_at \in FailChoices(store) : GuardPass(fail_at)
    \/ Walk(NoOutage, NoReplyFault)
    \/ SourceDone
    \/ \E fail_at \in FailChoices(store) : Process(fail_at)
    \/ SkipProcess
    \/ \E ok \in BOOLEAN : PushOne(ok)
    \/ PushDone
    \/ Save
    \/ Reset
    \/ Tick

Spec == Init /\ [][Next]_vars

\* ----------------------------------------------------------------- crashes
\* The process is killed (or an exception escapes) before save_progress is
\* entered: the locals are lost, the file and the store are what they are.
Crash ==
    /\ pc \in {"guard", "walk", "process", "push", "save"}
    /\ pc' = "idle"
    /\ dry_run' = FALSE
    /\ NoLocals("crashed")
    /\ UNCHANGED <<evars, xvars, rvars, now, subOf, created, usePraw, file, store, faults>>

\* The process is killed inside save_progress, after open(PROGRESS_FILE, "w")
\* has truncated the file and before json.dump has written all of it.
SaveCrash ==
    /\ pc = "save"
    /\ file' = Truncated
    /\ pc' = "idle"
    /\ dry_run' = FALSE
    /\ NoLocals("crashed_in_save")
    /\ UNCHANGED <<evars, xvars, rvars, now, subOf, created, usePraw, store, faults>>

\* run_scheduler on a file json.load cannot read: load_progress raises and
\* the invocation ends there.
LoadFails ==
    /\ pc = "idle"
    /\ ~Readable(file)
    /\ hist' = [hist EXCEPT !.outcome = "load_failed"]
    /\ UNCHANGED <<evars, xvars, rvars, comment_fields, now, subOf, created, usePraw, file, store, faults, pc,
                   dry_run, progress, today, existing_ids, all_new_posts, subIx,
                   period_index, posts_fetched_today, push_existing, push_ix, stats>>

CrashNext ==
    \/ Next
    \/ Crash
    \/ SaveCrash
    \/ LoadFails

\* Crashes are followed with the PullPush variant of the origin; the variant
\* plays no part in what a crash leaves behind.
CrashInit == Init /\ usePraw = FALSE

CrashSpec == CrashInit /\ [][CrashNext]_vars

\* -------------------------------------------------- runs that meet failures
\* push_posts: push_post raises while it builds the record of the current
\* post: ", ".join(post.get("tags") or []) is outside its try and raises
\* TypeError when the tags the AI answered hold an item that is no string.
\* Neither push_posts nor run_scheduler catches it: the invocation ends there.
PushRaises ==
    /\ pc = "push"
    /\ push_ix <= Len(all_new_posts)
    /\ ~is_duplicate(all_new_posts[push_ix], push_existing)
    /\ faults < MaxFaults
    /\ faults' = faults + 1
    /\ pc' = "idle"
    /\ dry_run' = FALSE
    /\ NoLocals("raised")
    /\ UNCHANGED <<evars, xvars, rvars, now, subOf, created, usePraw, file, store>>

FaultNext ==
    \/ Next
    \/ \E fail_at \in 1..MaxRequests : Walk(fail_at, NoReplyFault)
    \/ \E plan \in ReplyPlans : Walk(NoOutage, plan)
    \/ PushRaises

\* Failures are followed on an origin whose posts are all recent.
FaultInit == Init /\ created = [i \in Ids |-> 3]

FaultSpec == FaultInit /\ [][FaultNext]_vars

\* ---------------------------------------------------- resuming after a crash
\* The process is killed in push_posts or just before save_progress, after
\* push_post appended at least one record: the locals are lost, the file and
\* the store stay as they are.  The ids the run appended are kept in
\* hist.left_behind for the following invocation.
CrashAfterPush ==
    /\ pc \in {"push", "save"}
    /\ hist.pushed # <<>>
    /\ pc' = "idle"
    /\ dry_run' = FALSE
    /\ LocalsLost
    /\ hist' = [NewHist(load_progress(NoFile)) EXCEPT
                   !.outcome = "crashed", !.left_behind = Range(hist.pushed)]
    /\ UNCHANGED <<evars, xvars, rvars, now, subOf, created, usePraw, file, store, faults>>

ResumeNext ==
    \/ Next
    \/ CrashAfterPush

\* PullPush origin, every post already listed when the first run starts.
ResumeInit == Init /\ usePraw = FALSE /\ created = [i \in Ids |-> 3]

ResumeSpec == ResumeInit /\ [][ResumeNext]_vars

\* ------------------------------------------------- enrichment of one batch
\* process_posts (scheduler) or process_posts_with_retry (cli/process.py) is
\* called on a list of posts; the scheduler is not running.
EnrichInit ==
    /\ SchedulerInit
    /\ usePraw = FALSE
    /\ created = [i \in Ids |-> 3]
    /\ client_ok \in BOOLEAN
    /\ via_cli \in BOOLEAN
    /\ proc_posts \in {[k \in 1..n |-> k] : n \in 1..MaxItems}
    /\ proc_i = 1
    /\ epc = "item"
    /\ attempt = 0
    /\ trail = <<>>
    /\ waits = <<>>
    /\ enriched = NoPost
    /\ processed = <<>>
    /\ submitted = <<>>
    /\ ExtractIdle
    /\ RetryIdle

\* categorize_and_summarize(post) up to its first AI call: without a client
\* it returns the post; with one it enters retry_with_backoff.
Categorize ==
    /\ epc = "item"
    /\ proc_i <= Len(proc_posts)
    /\ trail' = <<>>
    /\ waits' = <<>>
    /\ IF ~client_ok
       THEN /\ enriched' = not_configured(RawPost(proc_posts[proc_i]))
            /\ epc' = "returned"
            /\ UNCHANGED attempt
       ELSE /\ enriched' = RawPost(proc_posts[proc_i])
            /\ attempt' = first_attempt(attempt)
            /\ epc' = "call"
    /\ UNCHANGED <<svars, xvars, rvars, client_ok, via_cli, proc_posts, proc_i, processed, submitted>>

\* retry_with_backoff: one iteration of its loop, and, when the loop ends,
\* the rest of categorize_and_summarize (parse and enrich, or an except branch).
AiCall(resp) ==
    /\ epc = "call"
    /\ trail' = Append(trail, resp)
    /\ LET called == [enriched EXCEPT !.calls = @ + 1]
       IN  IF resp \in AiFailures /\ ~is_last_attempt(attempt)
           THEN /\ waits' = Append(waits, retry_delay(resp, attempt))
                /\ attempt' = attempt + 1
                /\ enriched' = called
                /\ epc' = epc
           ELSE /\ enriched' = IF resp \in AiFailures \cup {"bad_json", "not_object"}
                               THEN on_ai_failure(called)
                               ELSE on_ai_success(called, resp)
                /\ epc' = "returned"
                /\ UNCHANGED <<attempt, waits>>
    /\ UNCHANGED <<svars, xvars, rvars, client_ok, via_cli, proc_posts, proc_i, processed, submitted>>

\* process_posts: processed.append(enriched_post); process_posts_with_retry
\* sets extracted_data itself before appending, and resets consecutive_429s.
\* The call of categorize_and_summarize returned and no extraction raised.
ItemDone ==
    /\ epc = "returned"
    /\ extract_error(full_text(enriched)) = NoError
    /\ processed' = Append(processed, IF via_cli THEN cli_enriched(enriched) ELSE enriched)
    /\ proc_i' = proc_i + 1
    /\ epc' = IF proc_i < Len(proc_posts) THEN "item" ELSE "handoff"
    /\ retries' = 0
    /\ consecutive_429s' = 0
    /\ UNCHANGED <<svars, xvars, client_ok, via_cli, proc_posts, attempt, trail, waits,
                   enriched, submitted>>

\* run_scheduler: push_posts(processed_posts) builds one record per post;
\* cli/process.py writes the processed posts to a file and appends nothing.
HandOff ==
    /\ epc = "handoff"
    /\ submitted' = IF via_cli THEN <<>>
                  ELSE [k \in 1..Len(processed) |-> push_record(processed[k])]
    /\ epc' = "done"
    /\ UNCHANGED <<svars, xvars, rvars, client_ok, via_cli, proc_posts, proc_i, attempt, trail,
                   waits, enriched, processed>>

\* ------------------------------------------------- the store read on its own
\* The table as anyone may have filled it: the scheduler is not running.
OracleInit ==
    /\ SchedulerInit
    /\ usePraw = FALSE
    /\ created = [i \in Ids |-> 3]
    /\ EnrichIdle
    /\ ExtractIdle
    /\ RetryIdle

\* A record is added to the table, with a reddit_id or without one.
StoreInsert(r) ==
    /\ pc = "idle"
    /\ Len(store) < MaxStore
    /\ store' = Append(store, r)
    /\ UNCHANGED <<evars, xvars, rvars, comment_fields, now, subOf, created, usePraw, file, faults, pc, dry_run,
                   progress, today, existing_ids, all_new_posts, subIx,
                   period_index, posts_fetched_today, push_existing, push_ix,
                   stats, hist>>

\* get_existing_post_ids() is called and returns: the store is not
\* configured, or it is and request number fail_at fails (0: none).
OracleRead(configured, fail_at) ==
    /\ pc = "idle"
    /\ pc' = "oracle"
    /\ existing_ids' = IF configured THEN get_existing_post_ids(store, fail_at)
                       ELSE unconfigured_ids
    /\ hist' = [hist EXCEPT
          !.outcome = IF ~configured THEN "unconfigured"
                      ELSE IF fail_at = 0 THEN "read_ok" ELSE "read_failed",
          !.failed_request = IF configured THEN fail_at ELSE 0]
    /\ UNCHANGED <<evars, xvars, rvars, comment_fields, now, subOf, created, usePraw, file, store, faults, dry_run,
                   progress, today, all_new_posts, subIx, period_index,
                   posts_fetched_today, push_existing, push_ix, stats>>

\* The caller drops the set.
OracleReturn ==
    /\ pc = "oracle"
    /\ pc' = "idle"
    /\ existing_ids' = {}
    /\ hist' = [hist EXCEPT !.outcome = "none", !.failed_request = 0]
    /\ UNCHANGED <<evars, xvars, rvars, comment_fields, now, subOf, created, usePraw, file, store, faults, dry_run,
                   progress, today, all_new_posts, subIx, period_index,
                   posts_fetched_today, push_existing, push_ix, stats>>

OracleNext ==
    \/ \E r \in Ids \cup {NoId} : StoreInsert(r)
    \/ \E configured \in BOOLEAN, fail_at \in 0..Requests(store) :
           OracleRead(configured, fail_at)
    \/ OracleReturn

OracleSpec == OracleInit /\ [][OracleNext]_vars

EnrichNext ==
    \/ Categorize
    \/ \E resp \in AiFailures \cup AiAnswers : AiCall(resp)
    \/ ItemDone
    \/ HandOff

EnrichSpec == EnrichInit /\ [][EnrichNext]_vars

\* ------------------------------------ process_posts_with_retry that raises
\* process_posts_with_retry: the try of the current post ended by an
\* exception, the ValueError of extract_financial_data (which escapes
\* categorize_and_summarize through its except branch, or is raised by the
\* extraction that follows it).  An error whose text holds "429" counts as a
\* rate limit: retries += 1, and the while ends without an append once
\* retries reaches MAX_RETRIES.  Another error appends the post with its
\* default category, unless the extraction of that branch raises in turn,
\* which ends process_posts_with_retry.
AttemptRaises ==
    /\ epc = "returned"
    /\ via_cli
    /\ LET post == RawPost(proc_posts[proc_i])
           err == extract_error(full_text(post))
           next_post == IF proc_i < Len(proc_posts) THEN "item" ELSE "handoff"
       IN  /\ err # NoError
           /\ IF has_429(err)
              THEN /\ consecutive_429s' = consecutive_429s + 1
                   /\ IF retries + 1 < MAX_RETRIES
                      THEN /\ retries' = retries + 1
                           /\ epc' = "item"
                           /\ UNCHANGED proc_i
                      ELSE /\ retries' = 0
                           /\ epc' = next_post
                           /\ proc_i' = proc_i + 1
                   /\ UNCHANGED processed
              ELSE IF extract_error(post.title \o post.selftext) # NoError
              THEN /\ epc' = "raised"
                   /\ UNCHANGED <<rvars, proc_i, processed>>
              ELSE /\ processed' = Append(processed, cli_default(post))
                   /\ proc_i' = proc_i + 1
                   /\ epc' = next_post
                   /\ retries' = 0
                   /\ UNCHANGED consecutive_429s
    /\ UNCHANGED <<svars, xvars, client_ok, via_cli, proc_posts, attempt, trail, waits,
                   enriched, submitted>>

\* process_posts_with_retry is called on the posts of a file.
RetryInit ==
    /\ SchedulerInit
    /\ usePraw = FALSE
    /\ created = [i \in Ids |-> 3]
    /\ client_ok \in BOOLEAN
    /\ via_cli = TRUE
    /\ proc_posts \in UNION {[1..n -> FilePosts] : n \in 1..MaxItems}
    /\ proc_i = 1
    /\ epc = "item"
    /\ attempt = 0
    /\ trail = <<>>
    /\ waits = <<>>
    /\ enriched = NoPost
    /\ processed = <<>>
    /\ submitted = <<>>
    /\ ExtractIdle
    /\ RetryIdle

RetryNext ==
    \/ EnrichNext
    \/ AttemptRaises

RetrySpec == RetryInit /\ [][RetryNext]_vars

\* ------------------------------------- extract_financial_data on its own
\* A phrase is added to the text that will be handed over.
Write(phrase) ==
    /\ extracted = NoData
    /\ Len(text) + Len(phrase) <= MaxWords
    /\ text' = text \o phrase
    /\ UNCHANGED <<svars, evars, rvars, extracted>>

\* extract_financial_data(text) is called and returns its dict.
Extract ==
    /\ extracted = NoData
    /\ extracted' = <<extract_financial_data(text)>>
    /\ UNCHANGED <<svars, evars, rvars, text>>

ExtractInit ==
    /\ SchedulerInit
    /\ usePraw = FALSE
    /\ created = [i \in Ids |-> 3]
    /\ EnrichIdle
    /\ ExtractIdle
    /\ RetryIdle

ExtractNext ==
    \/ \E phrase \in Phrases : Write(phrase)
    \/ Extract

ExtractSpec == ExtractInit /\ [][ExtractNext]_vars


\* ------------------------------------------------------------- properties
\* The score filter of the configured origin variant.
AboveThreshold(i) ==
    IF usePraw THEN Score(i) >= MIN_SCORE ELSE Score(i) > MIN_SCORE

\* The above-threshold posts the origin holds in window w of subreddit s.
WindowItems(s, w) ==
    {i \in PostsAfter(s, time_filter_to_epoch(TIME_PERIODS[w + 1], now), now) :
        AboveThreshold(i)}

\* Those of them that are not in the Known-ID set.
WindowUnknown(s, w) == WindowItems(s, w) \ existing_ids

\* The new posts the current run has captured for subreddit s.
CapturedFor(s) ==
    Cardinality({k \in 1..Len(all_new_posts) : subOf[all_new_posts[k]] = s})

\* The period_index the checkpoint held for s when the run loaded it.
LoadedIndex(s) == start_index(hist.loaded, s)

\* C1. Dedup correctness: an id that get_existing_post_ids() returned at the
\* start of the run is never appended to the store (push_post) during that
\* run, in whichever windows the origin lists it.
C1_DedupCorrectness ==
    \A k \in 1..Len(hist.pushed) : hist.pushed[k] \notin hist.start_ids

\* C1 witness: a run that appended posts although the origin listed a post
\* known at its start in two windows or more.
C1_Witness ==
    /\ pc = "save"
    /\ hist.pushed # <<>>
    /\ \E i \in hist.start_ids : Cardinality(hist.known_seen[i]) >= 2

\* C2 (as claimed). At-most-once ingestion: within one run no id is appended
\* to the store more than once.
C2_AtMostOnce ==
    \A j, k \in 1..Len(hist.pushed) : j # k => hist.pushed[j] # hist.pushed[k]

\* C3. Checkpoint monotonicity: no step other than reset_progress lowers the
\* period_index the checkpoint file holds for a source.
C3_IndexMonotone ==
    [][file' # NoFile =>
         \A s \in Subs : start_index(load_progress(file'), s)
                            >= start_index(load_progress(file), s)]_vars

\* C3 witness: a run that follows a completed one is about to save an index
\* that it has advanced beyond a stored index that was itself above 0.
C3_Witness ==
    /\ pc = "save"
    /\ hist.loaded.last_run # None
    /\ \E s \in Subs : /\ LoadedIndex(s) > 0
                       /\ start_index(progress, s) > LoadedIndex(s)

\* C4 (as claimed). If the window at the stored period_index yielded a new
\* item during the run, the index the run stores equals the one it loaded.
C4_NoAdvanceWhenYielded ==
    pc = "save" =>
        \A s \in Subs : LoadedIndex(s) \in hist.yielded[s]
                           => start_index(progress, s) = LoadedIndex(s)

\* C4 (amended). If the window at the stored period_index yielded a new item
\* during the run and no walk of that window in the run returned zero new
\* items, the index the run stores equals the one it loaded.
C4_NoAdvanceWithoutEmptyWalk ==
    pc = "save" =>
        \A s \in Subs :
            (LoadedIndex(s) \in hist.yielded[s] /\ LoadedIndex(s) \notin hist.empty[s])
                => start_index(progress, s) = LoadedIndex(s)

\* C4 witness: the run met the budget of a source from the window it started
\* in, without an empty walk of it.
C4_Witness ==
    /\ pc = "save"
    /\ \E s \in Subs : /\ LoadedIndex(s) \in hist.yielded[s]
                       /\ LoadedIndex(s) \notin hist.empty[s]
                       /\ start_index(progress, s) = LoadedIndex(s)

\* C5 (as claimed). period_index is incremented only in a state where every
\* above-threshold post the origin holds in the current window is in the
\* Known-ID set.
C5_AdvanceOnlyWhenExhausted ==
    [][(pc = "walk" /\ pc' = "walk" /\ subIx' = subIx
            /\ period_index' = period_index + 1)
         => WindowUnknown(SUBREDDITS[subIx], period_index) = {}]_vars

\* C6. Budget cap: the new posts a run captures for a source never exceed
\* POSTS_PER_DAY_PER_SUBREDDIT, and neither does posts_fetched_today.
C6_BudgetCap ==
    /\ posts_fetched_today <= POSTS_PER_DAY_PER_SUBREDDIT
    /\ \A s \in Subs : CapturedFor(s) <= POSTS_PER_DAY_PER_SUBREDDIT

\* C6 witness: a source reached the budget with batches from two windows.
C6_Witness ==
    /\ pc = "save"
    /\ \E s \in Subs : /\ CapturedFor(s) = POSTS_PER_DAY_PER_SUBREDDIT
                       /\ Cardinality(hist.yielded[s]) >= 2

\* C7 (as claimed). Budget enforcement with unlimited supply: when the window
\* a source started the run in still holds unknown above-threshold posts at
\* the end of the run (so it held some during all of it), the run captured
\* exactly POSTS_PER_DAY_PER_SUBREDDIT new posts for that source.
C7_ExactBudgetUnderSupply ==
    pc = "save" =>
        \A s \in Subs :
            (LoadedIndex(s) < Len(TIME_PERIODS) /\ WindowUnknown(s, LoadedIndex(s)) # {})
                => CapturedFor(s) = POSTS_PER_DAY_PER_SUBREDDIT

\* C8. Reaching the budget does not advance the window: when the loop of a
\* source ended on the budget, the period_index written for it is the index
\* of the window that supplied the last batch.
C8_BudgetStopKeepsWindow ==
    pc = "save" =>
        \A s \in Subs : CapturedFor(s) >= POSTS_PER_DAY_PER_SUBREDDIT
                           => start_index(progress, s) = hist.last_batch[s]

\* C8 witness: the budget was reached in a window older than the freshest.
C8_Witness ==
    /\ pc = "save"
    /\ \E s \in Subs : /\ CapturedFor(s) >= POSTS_PER_DAY_PER_SUBREDDIT
                       /\ hist.last_batch[s] > 0

\* C9 (as claimed). Steady state: a run that passes the guard with a source
\* whose stored period_index is len(TIME_PERIODS) walks the freshest window
\* of that source.
C9_SteadyStateWalksFreshest ==
    pc = "save" =>
        \A s \in Subs : LoadedIndex(s) = Len(TIME_PERIODS) => 0 \in hist.walked[s]

\* C10. Re-entrancy guard: when the loaded last_run equals today, the next
\* step of run_scheduler is its return: no walk, no enrichment call, no
\* append, and the checkpoint file and the store are as they were.
C10_GuardNoOp ==
    [][(pc = "guard" /\ progress.last_run = today)
         => /\ pc' = "idle"
            /\ file' = file
            /\ store' = store
            /\ \A s \in Subs : hist'.walked[s] = {}
            /\ hist'.ai_calls = 0
            /\ hist'.pushed = <<>>]_vars

\* C10 witness: an invocation has returned at the guard.
C10_Witness == pc = "idle" /\ hist.outcome = "skipped" /\ file # NoFile

\* The record run_scheduler passes to save_progress.
SavedRecord ==
    [progress EXCEPT !.last_run = today,
                     !.total_fetched = @ + Len(all_new_posts)]

\* C11. save_progress is called exactly once per run that passes the guard,
\* after every source has been walked and the enrich/push phase has ended:
\* no step between the guard and the end of the push phase writes the file,
\* a step that writes a checkpoint is taken with the last source's loop over
\* and every new post handed to push_post, and the step that ends the run
\* writes the run's record.
C11_SaveOnceAtEnd ==
    [][/\ (pc \in {"guard", "walk", "process", "push"} => file' = file)
       /\ (file' # file /\ file' # NoFile =>
              /\ pc = "save"
              /\ subIx = Len(SUBREDDITS)
              /\ ~loop_condition(posts_fetched_today, period_index)
              /\ (all_new_posts # <<>> /\ ~dry_run => push_ix > Len(all_new_posts)))
       /\ (pc = "save" /\ pc' = "idle" =>
              /\ file' = <<SavedRecord>>
              /\ file' # file)]_vars

\* C11 witness: a run that pushed posts has saved its checkpoint.
C11_Witness ==
    /\ pc = "idle"
    /\ hist.outcome = "completed"
    /\ file # NoFile
    /\ file[1].total_fetched >= 2
    /\ store # <<>>

\* C12. A crash before save_progress begins leaves the checkpoint file as the
\* previous run wrote it: no step taken between the guard and the end of the
\* push phase changes the file, and neither does the crash.
C12_CrashKeepsCheckpoint ==
    [][(\/ pc \in {"guard", "walk", "process", "push"}
        \/ (pc # "idle" /\ hist'.outcome = "crashed"))
         => file' = file]_vars

\* C12 witness: a run crashed after it had appended posts the checkpoint of
\* the previous run does not count.
C12_Witness ==
    /\ pc = "idle"
    /\ hist.outcome = "crashed"
    /\ file # NoFile
    /\ Readable(file)
    /\ Len(store) > file[1].total_fetched

\* C13 (as claimed). The checkpoint file is always the complete previous
\* record or the complete new one (or absent), whatever crash occurred.
C13_SaveCrashAtomic == Readable(file)

\* The AI call of the post categorize_and_summarize has just returned failed:
\* the last answer was an exception or could not be parsed into an object.
AiFailed ==
    /\ trail # <<>>
    /\ trail[Len(trail)] \in AiFailures \cup {"bad_json", "not_object"}

C16_ClosedVocabulary ==
    /\ \A k \in 1..Len(submitted) : submitted[k].category \in CATEGORIES
    /\ (epc = "returned" /\ trail # <<>> /\ trail[Len(trail)] # "ETF") =>
           enriched.category = "Autre"
    /\ (epc = "returned" /\ trail # <<>> /\ trail[Len(trail)] = "ETF") =>
           enriched.category = "ETF"

\* C16 witness: records were built from a post the AI put in the vocabulary
\* and from a post for which it answered a category outside it.
C16_Witness ==
    /\ epc = "done"
    /\ ~via_cli
    /\ Len(submitted) = 2
    /\ submitted[1].category = "ETF"
    /\ trail # <<>> /\ trail[Len(trail)] = "Bourse"
    /\ submitted[2].category = "Autre"

\* C17 (as claimed). Retry asymmetry: an AI call that fails with an error
\* that is not a rate-limit signal is not retried: one call for the post, no
\* backoff wait, the default category at once.
C17_NoRetryOnOtherError ==
    (trail # <<>> /\ trail[1] = "error") =>
        /\ epc # "call"
        /\ Len(trail) = 1
        /\ waits = <<>>
        /\ enriched.category = "Autre"

\* C17 (amended). An AI call that fails with an error that is not a
\* rate-limit signal is retried like a rate-limited one: the k-th attempt
\* (counted from 0) that fails so is followed by a wait of base_delay * 2^k
\* and another attempt, up to max_retries attempts for the post; the post
\* receives the default category when the last attempt has failed.
C17_OtherErrorRetried ==
    /\ enriched.calls = Len(trail)
    /\ Len(trail) <= max_retries
    /\ \A k \in 1..Len(trail) :
           trail[k] = "error" =>
               IF k < max_retries
               THEN /\ Len(waits) >= k
                    /\ waits[k] = base_delay * 2^(k - 1)
                    /\ (k = Len(trail) => epc = "call")
               ELSE /\ epc # "call"
                    /\ Len(waits) = max_retries - 1
                    /\ enriched.category = "Autre"

\* C17 witness: every attempt for a post failed with an error that is not a
\* rate limit.
C17_Witness ==
    /\ epc = "returned"
    /\ Len(trail) = max_retries
    /\ \A k \in 1..Len(trail) : trail[k] = "error"
    /\ waits = <<2, 4, 8, 16>>

\* C18. Backoff bound: when the AI call signals rate limiting every time,
\* at most max_retries attempts are made for the post, each wait is strictly
\* longer than the one before, and the post then gets the defaults.
C18_BackoffBound ==
    (\A k \in 1..Len(trail) : trail[k] = "rate_limit") =>
        /\ Len(trail) <= max_retries
        /\ Len(waits) <= max_retries - 1
        /\ \A k \in 2..Len(waits) : waits[k] > waits[k - 1]
        /\ Len(trail) = max_retries =>
               /\ epc # "call"
               /\ enriched.calls = max_retries
               /\ enriched.category = "Autre"
               /\ enriched.extracted_data # NoData

\* C18 witness: a post was rate limited max_retries times and fell back.
C18_Witness ==
    /\ epc = "returned"
    /\ Len(trail) = max_retries
    /\ \A k \in 1..Len(trail) : trail[k] = "rate_limit"
    /\ waits = <<2, 6, 18, 54>>
    /\ enriched.category = "Autre"

C20_OracleComplete ==
    (pc = "oracle" /\ hist.outcome = "read_ok") =>
        existing_ids = {store[k] : k \in 1..Len(store)} \ {NoId}

\* C20 witness: a store of exactly two pages, with a record without
\* reddit_id, was read, and an id of the second page is in the set.
C20_Witness ==
    /\ pc = "oracle"
    /\ hist.outcome = "read_ok"
    /\ Len(store) = 2 * NOCODB_PAGE
    /\ NoId \in Range(store)
    /\ store[Len(store)] \in existing_ids
    /\ Cardinality(existing_ids) >= 2

\* C21 (as claimed). Oracle fail-soft: when the store is unconfigured or a
\* request to it fails, on the first page or a later one,
\* get_existing_post_ids returns the empty set.
C21_EmptyOnFailure ==
    (pc = "oracle" /\ hist.outcome \in {"unconfigured", "read_failed"}) =>
        existing_ids = {}

\* C21 (amended). get_existing_post_ids always returns: the empty set when
\* the store is unconfigured or the first request fails, and, when a later
\* request fails, the reddit_ids of the pages read before it.
C21_PartialOnFailure ==
    pc = "oracle" =>
        /\ hist.outcome = "unconfigured" => existing_ids = {}
        /\ hist.outcome = "read_failed" =>
               /\ existing_ids =
                      reddit_ids(SubSeq(store, 1,
                          Min((hist.failed_request - 1) * NOCODB_PAGE, Len(store))))
               /\ hist.failed_request = 1 => existing_ids = {}

\* C21 witness: the request for the second page failed and the set returned
\* holds ids of the first page.
C21_Witness ==
    /\ pc = "oracle"
    /\ hist.outcome = "read_failed"
    /\ hist.failed_request = 2
    /\ existing_ids # {}

\* C22. Walker idempotence: in a run, once fetch_batch has walked the current
\* window of the current source and the loop has added the items it returned
\* to the Known-ID set, another fetch_batch of the same source and window,
\* with the same origin data and any limit the loop can still pass, returns
\* zero new items.
C22_WalkerIdempotent ==
    (pc = "walk" /\ loop_condition(posts_fetched_today, period_index)) =>
        LET s == SUBREDDITS[subIx]
            time_filter == TIME_PERIODS[period_index + 1]
            remaining == remaining_budget(posts_fetched_today)
            first == fetch_batch(s, time_filter, remaining, existing_ids, now,
                                 NoOutage, NoReplyFault)
        IN  \A limit \in 1..remaining :
                fetch_batch(s, time_filter, limit,
                            existing_ids \cup Range(first), now,
                            NoOutage, NoReplyFault) = <<>>

\* C22 witness: a run has walked one window of a source twice; the first
\* walk returned items and the second returned none.
C22_Witness ==
    /\ pc = "walk"
    /\ \E w \in hist.yielded[SUBREDDITS[subIx]] :
           /\ w \in hist.empty[SUBREDDITS[subIx]]
           /\ period_index = w + 1
    /\ posts_fetched_today \in 1..(POSTS_PER_DAY_PER_SUBREDDIT - 1)

\* C23 (as claimed). Walker completeness: a fetch_batch call of the loop that
\* returns fewer items than the limit it was given leaves no above-threshold
\* item of the window outside the Known-ID set.
C23_ShortOnlyWhenExhausted ==
    [][(pc = "walk" /\ loop_condition(posts_fetched_today, period_index)
            /\ posts_fetched_today' - posts_fetched_today
                   < remaining_budget(posts_fetched_today))
         => WindowItems(SUBREDDITS[subIx], period_index) \subseteq existing_ids']_vars

\* C26 (as claimed). No lost item: when a run that is not a dry run reaches
\* save_progress, every item it is about to count in total_fetched (and has
\* counted in its source's fetched counter) is in the store.
C26_CountedItemsStored ==
    (pc = "save" /\ ~dry_run) => Range(all_new_posts) \subseteq Range(store)

\* C28. Reset restarts backfill: right after reset_progress has removed the
\* progress file, load_progress returns last_run = None, total_fetched = 0 and
\* fetched = 0, period_index = 0 for every source, so that a run invoked then,
\* on whatever date, passes the guard and starts every source at window 0.
C28_ResetRestartsBackfill ==
    [][(pc = "idle" /\ pc' = "idle" /\ file # NoFile /\ file' # file)
         => LET p == load_progress(file')
            IN  /\ p.last_run = None
                /\ p.total_fetched = 0
                /\ \A s \in Subs : /\ p.subreddit_progress[s].fetched = 0
                                    /\ start_index(p, s) = 0
                /\ \A t \in 0..MaxNow : ~already_ran(p, Date(t))]_vars

\* C28 witness: a run is walking from the default record on the date of an
\* earlier run that saved its checkpoint and pushed items; only a reset
\* between the two lets it pass the guard.
C28_Witness ==
    /\ pc = "walk"
    /\ now = 3
    /\ store # <<>>
    /\ hist.loaded = load_progress(NoFile)
    /\ period_index = 0

\* C24. A failed top-reply fetch never fails the item: every post a walk of
\* the run has listed and not found in the Known-ID set is among the posts the
\* run has collected, whether fetch_top_comment found a reply for it or not;
\* it carries no comment_* key when fetch_top_comment returned None (no reply,
\* or a failed request), and all of them otherwise.
C24_ReplyFailureKeepsItem ==
    pc \in {"walk", "process", "push", "save"} =>
        \A i \in hist.candidates :
            /\ i \in Range(all_new_posts)
            /\ comment_fields[i] =
                   IF i \in hist.reply_none THEN {} ELSE CommentFields

\* C24 witness: the reply fetch of the first post of a batch failed, and the
\* walk went on to the next candidate of the same source, which got its reply.
C24_Witness ==
    /\ pc = "save"
    /\ Len(all_new_posts) >= 2
    /\ all_new_posts[1] \in hist.reply_none
    /\ comment_fields[all_new_posts[1]] = {}
    /\ subOf[all_new_posts[2]] = subOf[all_new_posts[1]]
    /\ comment_fields[all_new_posts[2]] = CommentFields

\* C25 (as claimed). Transport error handling: once a fetch for a source has
\* met a transport error, no post of that fetch has been credited to the
\* source and the loop of the source has ended: no further window of it is
\* walked in this run.
C25_AbandonedOnTransportError ==
    \A s \in Subs :
        hist.transport_error[s] =>
            /\ hist.error_credit[s] = 0
            /\ (pc = "walk" /\ SUBREDDITS[subIx] = s)
                   => ~loop_condition(posts_fetched_today, period_index)

\* C27 (as claimed). Nothing is fatal: an invocation that has passed the
\* re-entrancy guard ends only through save_progress.
C27_EndsThroughSave ==
    [][(pc \in {"walk", "process", "push"}) => pc' # "idle"]_vars

\* C29 (as claimed). Financial extraction example: for the text "J'ai 28 ans
\* et 150kEUR de patrimoine, j'epargne 500EUR par mois" extract_financial_data
\* returns age 28, patrimoine 150000, epargne_mensuelle 500 and amounts that
\* hold 150000 and 500.
C29_ExampleExtraction ==
    (extracted # NoData /\ text = ExampleText) =>
        /\ extracted[1].age = <<28>>
        /\ extracted[1].patrimoine = <<150000>>
        /\ extracted[1].epargne_mensuelle = <<500>>
        /\ {150000, 500} \subseteq Range(extracted[1].amounts)

\* C30. Age/duration disambiguation: when extract_financial_data has set
\* duree_annees, the age it reports is never that number, and when every age
\* its patterns match is that number, age is left unset.
C30_AgeNeverTheDuration ==
    extracted # NoData =>
        LET x == extracted[1]
            ages == {m \in Range(age_matches(text)) : m # <<>>}
        IN  x.duree_annees # Unset =>
                /\ x.age # x.duree_annees
                /\ (\A m \in ages : m = x.duree_annees) => x.age = Unset

\* C30 witness: the text gives a duration of 28 years, its only age match is
\* 28 too, and the dict has duree_annees 28 and no age.
C30_Witness ==
    /\ extracted # NoData
    /\ extracted[1].duree_annees = <<28>>
    /\ {m \in Range(age_matches(text)) : m # <<>>} = {<<28>>}
    /\ extracted[1].age = Unset

\* C31. The Known-ID set of a run only grows: no step of a run removes an id
\* from existing_ids, every post a walk has returned is in existing_ids when
\* the walk's iteration is over (before any later walk, of any window or
\* source), and a batch holds no post an earlier batch of the run captured.
C31_KnownIdsOnlyGrow ==
    [][(pc \in {"guard", "walk", "process", "push", "save"} /\ pc' # "idle") =>
          /\ existing_ids \subseteq existing_ids'
          /\ Range(all_new_posts') \subseteq existing_ids'
          /\ \A k \in (Len(all_new_posts) + 1)..Len(all_new_posts') :
                 all_new_posts'[k] \notin Range(all_new_posts)]_vars

\* C31 witness: two windows of the source being walked have returned a
\* batch, and the origin lists the first post of the run in the later window
\* too.
C31_Witness ==
    /\ pc = "walk"
    /\ Len(all_new_posts) >= 2
    /\ \E w \in hist.yielded[SUBREDDITS[subIx]] :
           /\ w >= 1
           /\ hist.yielded[SUBREDDITS[subIx]] \ {w} # {}
           /\ all_new_posts[1] \in WindowItems(SUBREDDITS[subIx], w)
           /\ hist.last_batch[SUBREDDITS[subIx]] = w

\* C32. Enrichment frame: categorize_and_summarize leaves the id and the raw
\* fields of the post it is given (subreddit, title, selftext, score,
\* num_comments, created_utc, created_at, url, author, upvote_ratio and the
\* comment_* keys) as they were, while it retries the AI call and on each
\* path it returns by (no client, parsed answer, unparsable answer, failed
\* call); the posts process_posts has collected hold them unchanged too.
C32_EnrichmentFrame ==
    /\ epc \in {"call", "returned"} =>
           \A f \in RawKeys : enriched[f] = RawPost(proc_posts[proc_i])[f]
    /\ \A k \in 1..Len(processed) :
           \A f \in RawKeys : processed[k][f] = RawPost(proc_posts[k])[f]

\* C32 witness: the post that holds the example text came back from a failed
\* AI call with its default category and its extracted data, and the next
\* post came back with the category the AI answered.
C32_Witness ==
    /\ epc = "returned"
    /\ ~via_cli
    /\ Len(processed) = 1
    /\ processed[1].ai_failed
    /\ processed[1].category = "Autre"
    /\ processed[1].extracted_data # NoData
    /\ processed[1].title # <<>>
    /\ enriched.category = "ETF"

\* C33 (as claimed). Mandatory inter-request delay: between any two
\* consecutive requests a run sends to the content origin (a page of the post
\* list, a top reply) there is a sleep, within a walk and from the last
\* request of one walk to the first request of the next.
C33_DelayBetweenRequests ==
    \A k \in 1..(Len(hist.events) - 1) :
        hist.events[k] = "sleep" \/ hist.events[k + 1] = "sleep"

\* C34 (as claimed). Interchangeable origin variants: whenever the loop is
\* about to walk a window, the PRAW variant and the PullPush variant of
\* fetch_subreddit_posts, given the same origin data, source, window and
\* limit (and MIN_SCORE), yield the same items.
C34_VariantsYieldSameItems ==
    (pc = "walk" /\ loop_condition(posts_fetched_today, period_index)) =>
        LET s == SUBREDDITS[subIx]
            time_filter == TIME_PERIODS[period_index + 1]
            remaining == remaining_budget(posts_fetched_today)
        IN  Range(fetch_praw(s, time_filter, remaining, MIN_SCORE, now, NoOutage))
              = Range(fetch_pullpush(s, time_filter, remaining, MIN_SCORE, now,
                                     NoOutage))

\* C35 (as claimed). process_posts_with_retry returns exactly one record per
\* input post, in input order, whatever errors the attempts for a post ended
\* by: once its loop is over, the list it built holds the posts it was given.
C35_OneRecordPerPost ==
    (via_cli /\ epc \in {"handoff", "done"}) =>
        /\ Len(processed) = Len(proc_posts)
        /\ \A k \in 1..Len(processed) : processed[k].id = proc_posts[k]

\* C36. The walking loop of a source terminates: every iteration either
\* adds at least one post to posts_fetched_today and keeps period_index, or
\* keeps posts_fetched_today and adds exactly 1 to period_index; period_index
\* stays within 0..len(TIME_PERIODS), posts_fetched_today within the budget,
\* and no source is walked more than
\* POSTS_PER_DAY_PER_SUBREDDIT + len(TIME_PERIODS) times in a run.
C36_WalkingLoopTerminates ==
    [][/\ (pc = "walk" /\ loop_condition(posts_fetched_today, period_index)) =>
            \/ /\ posts_fetched_today' >= posts_fetched_today + 1
               /\ period_index' = period_index
            \/ /\ posts_fetched_today' = posts_fetched_today
               /\ period_index' = period_index + 1
       /\ period_index' \in 0..Len(TIME_PERIODS)
       /\ posts_fetched_today' \in 0..POSTS_PER_DAY_PER_SUBREDDIT
       /\ \A s \in Subs :
              hist'.walks[s] <= POSTS_PER_DAY_PER_SUBREDDIT + Len(TIME_PERIODS)]_vars

\* C36 witness: the loop of a source has ended after iterations of both
\* kinds: it returned batches more than once and moved through every window.
C36_Witness ==
    /\ pc = "walk"
    /\ ~loop_condition(posts_fetched_today, period_index)
    /\ period_index = Len(TIME_PERIODS)
    /\ posts_fetched_today >= 2
    /\ hist.walks[SUBREDDITS[subIx]] >= Len(TIME_PERIODS) + 2

\* The sum of the fetched counters of the sources of a progress record.
RECURSIVE SumFetched(_, _)
SumFetched(p, S) ==
    IF S = {} THEN 0
    ELSE LET s == CHOOSE x \in S : TRUE
         IN  p.subreddit_progress[s].fetched + SumFetched(p, S \ {s})

\* C37. Counter consistency: from a fresh checkpoint on, every checkpoint a
\* completed run writes has total_fetched equal to the sum of the fetched
\* counters of the sources; the run adds to the counter of each source
\* exactly the number of posts its batches for that source held; and from one
\* checkpoint to the next no counter decreases.
C37_CounterConsistency ==
    [][/\ file' # NoFile =>
            file'[1].total_fetched = SumFetched(file'[1], Subs)
       /\ (file # NoFile /\ file' # NoFile) =>
            /\ file'[1].total_fetched >= file[1].total_fetched
            /\ \A s \in Subs : file'[1].subreddit_progress[s].fetched
                                   >= file[1].subreddit_progress[s].fetched
       /\ (pc = "save" /\ pc' = "idle") =>
            /\ file'[1].total_fetched
                   = hist.loaded.total_fetched + Len(all_new_posts)
            /\ \A s \in Subs : file'[1].subreddit_progress[s].fetched
                   = hist.loaded.subreddit_progress[s].fetched + CapturedFor(s)]_vars

\* C37 witness: two runs have completed on two dates with no failed request;
\* the first, a dry run, captured posts, and the second captured posts and
\* stored them: the checkpoint counts more posts than the store holds.
C37_Witness ==
    /\ pc = "idle"
    /\ hist.outcome = "completed"
    /\ faults = 0
    /\ file # NoFile
    /\ file[1].last_run = Date(MaxNow)
    /\ Len(store) >= 1
    /\ file[1].total_fetched > Len(store)
    /\ \A s \in Subs : file[1].subreddit_progress[s].fetched >= 1

\* C38. A dry run makes no AI call and appends nothing to the store, and,
\* unless it returned at the guard, ends by saving the checkpoint and in no
\* other way: last_run is today, every source has
\* the period index its loop reached and a fetched counter increased by what
\* the run captured for it, total_fetched counts the captured posts; an
\* invocation on the same date then returns at the guard, and the store is
\* what it was before the dry run, whatever the run counted.
C38_DryRunCountsWithoutStoring ==
    [][(dry_run /\ pc \in {"guard", "walk", "process", "push", "save"}) =>
          /\ store' = store
          /\ pc' # "push"
          /\ pc' # "idle" => hist'.ai_calls = 0
          /\ (pc = "guard" /\ pc' = "idle") => file' = file
          /\ (pc # "guard" /\ pc' = "idle") =>
                /\ pc = "save"
                /\ file' # NoFile
                /\ file'[1].last_run = Date(now)
                /\ file'[1].total_fetched
                       = hist.loaded.total_fetched + Len(all_new_posts)
                /\ \A s \in Subs :
                       /\ file'[1].subreddit_progress[s].period_index
                              = progress.subreddit_progress[s].period_index
                       /\ file'[1].subreddit_progress[s].fetched
                              = hist.loaded.subreddit_progress[s].fetched
                                  + CapturedFor(s)
                /\ already_ran(load_progress(file'), Date(now))]_vars

\* C38 witness: a normal run is at the guard on the date of a dry run that
\* counted posts; no store request has failed and the store is empty.
C38_Witness ==
    /\ pc = "guard"
    /\ ~dry_run
    /\ already_ran(progress, today)
    /\ progress.total_fetched >= 2
    /\ \E s \in Subs : progress.subreddit_progress[s].period_index >= 1
    /\ faults = 0
    /\ store = <<>>

\* C39 (as claimed). PullPush pagination yields each item at most once:
\* whenever the loop is about to walk a window, one call of _fetch_pullpush
\* for that source, window and limit, with no failing request, yields no id
\* twice across its pages and at most `limit` posts.
C39_PullPushYieldsOnce ==
    (pc = "walk" /\ loop_condition(posts_fetched_today, period_index)) =>
        LET limit == remaining_budget(posts_fetched_today)
            yielded == fetch_pullpush(SUBREDDITS[subIx],
                                      TIME_PERIODS[period_index + 1], limit,
                                      MIN_SCORE, now, NoOutage)
        IN  /\ \A j, k \in 1..Len(yielded) : yielded[j] = yielded[k] => j = k
            /\ Len(yielded) <= limit

\* C40. Resume after a crash between push and save: a crash that follows the
\* append of some items and precedes save_progress leaves a checkpoint that
\* does not stop an invocation at the guard, on the same date or later; and
\* the next invocation, when its read of the store returned the items the
\* crashed run appended, appends none of them.
C40_ResumeAfterCrash ==
    [][/\ (/\ pc \in {"push", "save"}
           /\ hist.pushed # <<>>
           /\ pc' = "idle"
           /\ hist'.outcome = "crashed") =>
              /\ file' = file
              /\ Readable(file')
              /\ \A t \in now..MaxNow :
                     ~already_ran(load_progress(file'), Date(t))
       /\ (/\ pc' \in {"walk", "process", "push", "save"}
           /\ hist'.left_behind \subseteq hist'.start_ids) =>
              \A k \in 1..Len(hist'.pushed) :
                  hist'.pushed[k] \notin hist'.left_behind]_vars

\* C40 witness: on the date of a run that crashed after it had appended
\* items, the next run has read them from the store, has seen the origin list
\* one of them again and has appended another post.
C40_Witness ==
    /\ pc \in {"push", "save"}
    /\ now = 3
    /\ hist.left_behind # {}
    /\ hist.left_behind \subseteq hist.start_ids
    /\ \E i \in hist.left_behind : hist.known_seen[i] # {}
    /\ hist.pushed # <<>>

=============================================================================
